---- MODULE Spec2Model ----
(***************************************************************************)
(* Model of the proxy execution pipeline of sim-proxy:                     *)
(*   proxyRequest / executeProxyRequest / processResponse (utils/proxy.ts) *)
(*   fetchWithRetry (utils/fetch.ts)                                       *)
(* One JavaScript event loop: every action is one macrotask (a fetch, a    *)
(* sleep, a body read or a timer completing, a new proxyRequest call) or   *)
(* one queued promise continuation (a microtask); macrotasks wait until    *)
(* the microtask queue is empty.                                           *)
(***************************************************************************)
EXTENDS Integers, Sequences, FiniteSets, TLC

(***************************************************************************)
(* Bounds of the model.                                                    *)
(***************************************************************************)
\* concurrent proxyRequest activations (call slots)
NumCalls == 2
\* inbound requests (Hono contexts), each with its own subrequest counter
NumCtx == 2
\* largest maxRetries option tried when fetchWithRetry is called directly
MaxRetriesOpt == 4
\* longest chunk sequence of a body read by one call alone
MaxChunks == 3
\* longest chunk sequence of a body where several calls run concurrently
FewChunks == 1

\* inbound requests passing through the rate limiter for one key
NumReqs == 3
\* of these, the requests that may be inside the rate limiter at once
NumRacing == 2
\* proxyRequest calls made by a second inbound request while the first uses
\* up its budget
MaxOtherCalls == 1
\* largest `requests` option (the limit) of a rate limiter
MaxLimit == 2
\* the number in the `window` option of a rate limiter, in seconds ('2s')
WindowNum == 2

\* inbound requests passing through the middleware chain
NumChain == 2

\* calculateDelay: the largest attempt and multiplier, and the number of
\* values Math.random() takes
MaxAttempt == 4
MaxMultiplier == 3
RandomSteps == 8

Calls == 1..NumCalls
Ctx == 1..NumCtx
Reqs == 1..NumReqs
Racing == 1..NumRacing
ChainReqs == 1..NumChain

(***************************************************************************)
(* Program constants (config/constants.ts).                                *)
(***************************************************************************)
MAX_RESPONSE_SIZE == 24 * 1024 * 1024
MAX_SUBREQUESTS == 45
MAX_RETRIES == 3
INITIAL_DELAY == 1000
MAX_DELAY == 10000
BACKOFF_MULTIPLIER == 2
NON_RETRYABLE_STATUS == {400, 401, 403, 404, 405, 409, 422, 501, 505}
SUPPORTED_CHAINS_TTL == 3600
SUPPORTED_CHAINS_STALE_TTL == 86400
CLEANUP_DELAY == 500
DUNE_SIM_BASE_ENDPOINT == "https://api.sim.dune.com"

(***************************************************************************)
(* Requests: method, path and query string as the route handlers pass      *)
(* them to proxyRequest.                                                   *)
(***************************************************************************)
\* a path is the sequence of its segments
BalancesPath == <<"v1", "evm", "balances", "0xd8da6bf26964af9d7eed9e03e53415d37aa96045">>
ChainsPath == <<"v1", "evm", "supported-chains", "balances">>

Requests ==
  { [method |-> "GET", path |-> BalancesPath, query |-> ""],
    [method |-> "GET", path |-> BalancesPath, query |-> "limit=1"],
    [method |-> "GET", path |-> ChainsPath, query |-> ""],
    [method |-> "HEAD", path |-> BalancesPath, query |-> ""],
    [method |-> "POST", path |-> BalancesPath, query |-> ""] }

\* the requests made where several calls run concurrently
FewRequests == { r \in Requests : r.path = BalancesPath }

NoRequest == [method |-> "", path |-> <<>>, query |-> ""]

\* url.toString(): base endpoint + path + "?" + query when a query is set
UrlOf(r) == [path |-> r.path, search |-> r.query]

\* `${c.req.method}:${url.toString()}`
RequestKey(r) == <<r.method, UrlOf(r)>>

Keys == { RequestKey(r) : r \in Requests }

\* every method deduplicated
shouldDeduplicateAll(method) == TRUE

\* method === 'GET' || method === 'HEAD'
shouldDeduplicate(method) == method = "GET" \/ method = "HEAD"

(***************************************************************************)
(* JSON texts and values.  A text is a string; a value is null or an       *)
(* object (a record).  JSONParse and JSONStringify are tables over the     *)
(* texts of the model: parsing drops insignificant whitespace, so          *)
(* stringify(parse(t)) is the canonical text of t, not always t.           *)
(***************************************************************************)
T_ok == "{wallet_address:0x,balances:[]}"
T_err_ws == "{ error: internal }"
T_extra == "{wallet_address:0x,balances:[],sponsor:x}"
T_missing == "{wallet_address:0x}"
T_chains == "{chains:[]}"
T_err == "{error:internal}"
T_html == "<html>Bad Gateway</html>"

JNull == [t |-> "null"]
JObj(fields) == [t |-> "object", v |-> fields]

D_ok == JObj([wallet_address |-> "0x", balances |-> "[]"])
D_extra == JObj([wallet_address |-> "0x", balances |-> "[]", sponsor |-> "x"])
D_missing == JObj([wallet_address |-> "0x"])
D_chains == JObj([chains |-> "[]"])
D_err == JObj([error |-> "internal"])

ParseOk(d) == [ok |-> TRUE, data |-> d]
ParseFail == [ok |-> FALSE, data |-> JNull]

\* a lenient parse: a text that is not JSON gives null
JSONParseLenient(text) ==
  CASE text = T_ok -> ParseOk(D_ok)
    [] text = T_err_ws -> ParseOk(D_err)
    [] text = T_extra -> ParseOk(D_extra)
    [] text = T_missing -> ParseOk(D_missing)
    [] text = T_chains -> ParseOk(D_chains)
    [] text = T_err -> ParseOk(D_err)
    [] OTHER -> ParseOk(JNull)

\* JSON.parse(bodyText): SyntaxError on a text that is not JSON (the empty
\* text included)
JSONParse(text) ==
  CASE text = T_ok -> ParseOk(D_ok)
    [] text = T_err_ws -> ParseOk(D_err)
    [] text = T_extra -> ParseOk(D_extra)
    [] text = T_missing -> ParseOk(D_missing)
    [] text = T_chains -> ParseOk(D_chains)
    [] text = T_err -> ParseOk(D_err)
    [] text = "null" -> ParseOk(JNull)
    [] OTHER -> ParseFail

\* JSON.stringify(data)
JSONStringify(d) ==
  CASE d = JNull -> "null"
    [] d = D_ok -> T_ok
    [] d = D_extra -> T_extra
    [] d = D_missing -> T_missing
    [] d = D_chains -> T_chains
    [] d = D_err -> T_err
    [] OTHER -> "?"

(***************************************************************************)
(* Response schemas (zod): z.object without passthrough checks the         *)
(* required keys and strips the keys it does not know.                     *)
(***************************************************************************)
balancesResponseSchema ==
  [required |-> {"wallet_address", "balances"},
   known |-> {"wallet_address", "balances", "errors", "next_offset", "request_time",
              "response_time", "total_usd_value", "chain_count"}]

chainsResponseSchema == [required |-> {"chains"}, known |-> {"chains"}]

\* the schema the route handler of a path passes to proxyRequest
SchemaOf(path) == IF path = ChainsPath THEN chainsResponseSchema ELSE balancesResponseSchema

\* responseSchema.parse(data): the validated data, or a ZodError
SchemaParse(schema, d) ==
  IF d.t = "object" /\ schema.required \subseteq DOMAIN d.v
  THEN [ok |-> TRUE,
        data |-> JObj([k \in (DOMAIN d.v) \cap schema.known |-> d.v[k]])]
  ELSE [ok |-> FALSE, data |-> JNull]

(***************************************************************************)
(* Upstream responses.  fetch resolves with a status and a body stream (or *)
(* no body: response.body is null); the chunks of the stream, given by     *)
(* their byte lengths, and the text they decode to arrive while            *)
(* processResponse reads.                                                  *)
(***************************************************************************)
Resp(status, hasBody) == [kind |-> "response", status |-> status, hasBody |-> hasBody]
NoResponse == [kind |-> "none"]

\* response.ok
Ok(status) == status \in 200..299

\* what the upstream may answer to one fetch of a proxied request, and the
\* chunks and texts of its bodies
Statuses == {200, 201, 404, 429, 500, 501, 505}
Upstream == { Resp(s, TRUE) : s \in Statuses } \cup {Resp(204, FALSE), Resp(404, FALSE)}
ChunkSizes == {1, MAX_RESPONSE_SIZE}
Texts == {T_ok, T_extra, T_missing, T_chains, T_err, T_err_ws, T_html}

\* the same, kept small where several calls run concurrently
FewUpstream == {Resp(200, TRUE), Resp(500, TRUE)}
FewChunkSizes == {1024}
FewTexts == {T_ok, T_missing}

\* what fetch may answer when fetchWithRetry is called directly
FetchStatuses == {200, 204, 400, 404, 429, 500, 501, 503, 505}
FetchUpstream == { Resp(s, TRUE) : s \in FetchStatuses }

\* the responses handed to processResponse directly, and their chunks
ReaderResponses == {Resp(200, TRUE), Resp(500, TRUE), Resp(204, FALSE)}
ReaderChunkSizes == {1, 1024, MAX_RESPONSE_SIZE \div 2, MAX_RESPONSE_SIZE}

(***************************************************************************)
(* Retry predicates.                                                       *)
(***************************************************************************)
\* the set of non-retryable statuses left out
defaultShouldRetryNoSet(status) == ~Ok(status) /\ (status >= 500 \/ status = 429)

\* fetch.ts defaultShouldRetry
defaultShouldRetry(status) ==
  IF Ok(status) THEN FALSE
  ELSE IF status \in NON_RETRYABLE_STATUS THEN FALSE
  ELSE status >= 500 \/ status = 429

\* every 5xx retried, 501 and 505 included
proxyShouldRetryAll5xx(status) == ~Ok(status) /\ (status = 429 \/ status >= 500)

\* the shouldRetry option executeProxyRequest passes
proxyShouldRetry(status) ==
  IF Ok(status) THEN FALSE
  ELSE IF status = 429 THEN TRUE
  ELSE IF status >= 500 THEN status # 501 /\ status # 505
  ELSE FALSE

Predicates == {"default", "proxy", "always", "never"}

\* shouldRetry(response), by the name of the predicate passed in retryOptions
shouldRetry(pred, status) ==
  CASE pred = "default" -> defaultShouldRetry(status)
    [] pred = "proxy" -> proxyShouldRetry(status)
    [] pred = "always" -> TRUE
    [] OTHER -> FALSE

\* calculateDelay's smallest result for attempt >= 1: the clamped delay is at
\* least INITIAL_DELAY and the jitter takes at most 25% off
MinBackoff == (INITIAL_DELAY * 3) \div 4

(***************************************************************************)
(* Outcomes of a call.                                                     *)
(***************************************************************************)
NoRet == [kind |-> "none"]
Pending == [kind |-> "pending"]

\* new HTTPException(status, { message })
HTTPException(status, message) == [kind |-> "error", status |-> status, message |-> message]

\* new Response(body, { status, headers })
NewResponse(body, status, headers) ==
  [kind |-> "response", status |-> status, body |-> body, headers |-> headers]

\* path.includes('supported-chains'), on the segments of the path
IncludesSupportedChains(path) == \E i \in DOMAIN path : path[i] = "supported-chains"

\* the path ignored: every response private
createCacheHeadersPrivate(path) ==
  [cacheControl |-> [directive |-> "private, no-cache", maxAge |-> 0, sMaxage |-> 0],
   contentType |-> "application/json"]

createCacheHeaders(path) ==
  [cacheControl |->
     IF IncludesSupportedChains(path)
     THEN [directive |-> "public", maxAge |-> SUPPORTED_CHAINS_TTL,
           sMaxage |-> SUPPORTED_CHAINS_STALE_TTL]
     ELSE [directive |-> "private, no-cache", maxAge |-> 0, sMaxage |-> 0],
   contentType |-> "application/json"]

\* headers: { 'Content-Type': 'application/json' }
JsonHeaders ==
  [cacheControl |-> [directive |-> "", maxAge |-> 0, sMaxage |-> 0],
   contentType |-> "application/json"]

\* the schema applied to the body of every status
FinishValidateAll(r, response, data) ==
  LET v == SchemaParse(SchemaOf(r.path), data) IN
  IF v.ok
  THEN NewResponse(JSONStringify(v.data), response.status,
                   IF Ok(response.status) THEN createCacheHeaders(r.path) ELSE JsonHeaders)
  ELSE HTTPException(502, "Invalid response schema from upstream API")

\* the 2xx body returned as parsed, without validation
FinishUnvalidated(r, response, data) ==
  NewResponse(JSONStringify(data), response.status,
              IF Ok(response.status) THEN createCacheHeaders(r.path) ELSE JsonHeaders)

\* executeProxyRequest after processResponse: validate a 2xx body against the
\* schema, pass any other status through
Finish(r, response, data) ==
  IF Ok(response.status)
  THEN LET v == SchemaParse(SchemaOf(r.path), data) IN
       IF v.ok
       THEN NewResponse(JSONStringify(v.data), response.status, createCacheHeaders(r.path))
       ELSE HTTPException(502, "Invalid response schema from upstream API")
  ELSE NewResponse(JSONStringify(data), response.status, JsonHeaders)

(***************************************************************************)
(* State.                                                                  *)
(***************************************************************************)
VARIABLES
  entry,             \* per slot: the exported function the slot is a call of
  pc,                \* per slot: where the call is suspended
  args,              \* per slot: method, path, query of the proxyRequest call
  ctxOf,             \* per slot: the inbound request (context) of the call
  subrequestCount,   \* per context: c.get('subrequestCount') || 0
  inFlightRequests,  \* the registry: key -> slot whose promise is stored, 0 if none
  timers,            \* pending cleanup timeouts, in scheduling order (by scheduling slot)
  microtasks,        \* queued continuations of `await inFlight`, in order
  awaiting,          \* per slot: the slot whose promise the call awaited, 0 if none
  promise,           \* per slot: requestPromise, the promise of executeProxyRequest
  bodyUsed,          \* per slot: the body of the Response of `promise` was consumed
  ret,               \* per slot: what the call gave its caller
  fw,                \* per slot: the options and locals of fetchWithRetry
  rd,                \* per slot: the locals of processResponse
  fetchCalls,        \* per slot: fetch() calls issued (a spy on fetch)
  fetchTotal,        \* per context: fetch() calls issued by all its calls (a spy on fetch)
  fetchLog,          \* per slot: what each completed fetch() call gave, in order
  sleeps,            \* per slot: backoff sleeps started (a spy on setTimeout)
  pendingAtCall,     \* per slot: the slots with the same key still pending at its call
  clock,             \* Date.now(), in ms
  kv,                \* the RATE_LIMITER namespace: the record stored under the key
  rl,                \* per request: where the rateLimiter middleware is, and its locals
  cfg,               \* the options of the rateLimiter and the environment it runs in
  kvPuts,            \* the kv.put() calls made, in order (a spy on the namespace)
  eh,                \* the last call of errorHandler or notFoundHandler, and its Response
  calc,              \* the last call of a pure helper: its name, arguments and result
  store,             \* the RATE_LIMITER namespace by key: the records of every key
  rq                 \* per inbound request: where it is in the middleware chain

proxyVars == <<entry, pc, args, ctxOf, subrequestCount, inFlightRequests, timers, microtasks,
               awaiting, promise, bodyUsed, ret, fw, rd, fetchCalls, fetchTotal, fetchLog, sleeps,
               pendingAtCall>>

limiterVars == <<clock, kv, rl, cfg, kvPuts>>

handlerVars == <<eh>>

utilVars == <<calc>>

chainVars == <<store, rq>>

\* the state of the middleware around the proxy
middlewareVars == <<limiterVars, handlerVars, utilVars, chainVars>>

vars == <<proxyVars, middlewareVars>>

NoFrame ==
  [attempt |-> 0, maxRetries |-> 0, shouldRetry |-> "", lastResponse |-> NoResponse,
   lastError |-> 0, consulted |-> <<>>, onRetry |-> <<>>]

\* fetchWithRetry's options and its locals on entry to the loop
NewFrame(maxRetries, pred) ==
  [attempt |-> 1, maxRetries |-> maxRetries, shouldRetry |-> pred,
   lastResponse |-> NoResponse, lastError |-> 0, consulted |-> <<>>, onRetry |-> <<>>]

\* a rejected fetch() call
Thrown == [kind |-> "throw"]

NoRead ==
  [response |-> NoResponse, chunks |-> <<>>, totalSize |-> 0, cancelled |-> FALSE,
   bodyText |-> ""]

\* processResponse's locals once the reader is taken
NewRead(response) == [NoRead EXCEPT !.response = response]

Range(seq) == { seq[i] : i \in DOMAIN seq }

RECURSIVE Ascending(_)
Ascending(S) ==
  IF S = {} THEN <<>>
  ELSE LET m == CHOOSE x \in S : \A y \in S : x <= y IN <<m>> \o Ascending(S \ {m})

RECURSIVE Sum(_)
Sum(seq) == IF seq = <<>> THEN 0 ELSE Head(seq) + Sum(Tail(seq))

\* a promise that is only pending counted as settled
Started(p) == promise[p].kind # "none"

Settled(p) == promise[p].kind \notin {"none", "pending"}

\* the calls suspended in `await inFlight` on the promise of p, in the order they
\* subscribed (slots are numbered in the order they are called)
Waiters(p) == Ascending({ w \in Calls : pc[w] = "await" /\ awaiting[w] = p })

(***************************************************************************)
(* The rate limiter (middleware/rateLimit.ts): its options, the records of *)
(* the KV namespace, and the locals of one pass through the middleware.    *)
(***************************************************************************)
\* Math.ceil(a / b), b > 0
CeilDiv(a, b) == -((-a) \div b)

\* parseWindow: the window option, a number and a unit, in milliseconds
parseWindow(num, unit) ==
  num * (CASE unit = "s" -> 1000
           [] unit = "m" -> 60000
           [] unit = "h" -> 3600000
           [] OTHER -> 86400000)

windowMs == parseWindow(WindowNum, "s")
windowSeconds == CeilDiv(windowMs, 1000)

\* the instants at which requests arrive and store operations complete
TimePoints ==
  {0, 1000, windowMs - 1, windowMs, windowMs + 1, 2 * windowMs}

\* NODE_ENV: z.enum(['development', 'production', 'test'])
Modes == {"development", "production", "test"}

\* kv.get(key, 'json') gives null, or the RateLimitData stored (JSON numbers
\* survive stringify and parse unchanged)
Null == [present |-> FALSE, count |-> 0, resetTime |-> 0]
RateLimitData(count, resetTime) == [present |-> TRUE, count |-> count, resetTime |-> resetTime]

\* the namespace holds nothing under the key
NoRecord == [data |-> Null, expiresAt |-> 0]

\* what kv.get gives at time `at`: a record is gone once its TTL has run out
Stored(at) == IF kv.data.present /\ at < kv.expiresAt THEN kv.data ELSE Null

NoHeaders == [limit |-> -1, remaining |-> -1, reset |-> -1, retryAfter |-> -1]

\* `await next()`: the downstream handler was run
Allowed == [kind |-> "next"]

\* new HTTPException(429, { message: 'Rate limit exceeded', cause })
RateLimitExceeded(retryAfter) ==
  [kind |-> "error", status |-> 429, message |-> "Rate limit exceeded",
   retryAfter |-> retryAfter]

InternalError == HTTPException(500, "Internal server error")

IdleReq ==
  [pc |-> "idle", now |-> 0, data |-> Null, newData |-> Null, ttl |-> 0, out |-> NoRet,
   hdr |-> NoHeaders, failed |-> FALSE]

\* the rate limiter at rest, as the specifications of the proxy leave it
LimiterIdle ==
  /\ clock = 0
  /\ kv = NoRecord
  /\ rl = [i \in Reqs |-> IdleReq]
  /\ cfg = [requests |-> 1, NODE_ENV |-> "production", kv |-> TRUE]
  /\ kvPuts = <<>>

\* no error has been handled yet
NoCall == [handler |-> "none"]

HandlerIdle == eh = NoCall

\* no helper has been called yet
NoCalc == [f |-> "none"]

UtilIdle == calc = NoCalc

\* c.req.header(name): undefined, or the string sent (a sequence of characters)
NoHeader == [present |-> FALSE, value |-> <<>>]
Header(value) == [present |-> TRUE, value |-> value]

\* the headers of a request that name its client: CF-Connecting-IP and
\* X-Forwarded-For (X-Real-IP is not sent)
ClientHeaders(cf, xff) == [cf |-> cf, xff |-> xff]
NoClientHeaders == ClientHeaders(NoHeader, NoHeader)

\* an inbound request that has not arrived yet
IdleChainReq ==
  [pc |-> "idle", from |-> NoClientHeaders, path |-> <<>>, authorization |-> NoHeader,
   keyPrefix |-> <<>>, key |-> <<>>, now |-> 0, data |-> Null, newData |-> Null,
   ttl |-> 0, puts |-> 0, trail |-> <<>>, out |-> NoRet]

\* no request has entered the middleware chain, the namespace holds no record
ChainIdle ==
  /\ store = << >>
  /\ rq = [i \in ChainReqs |-> IdleChainReq]

MiddlewareIdle == LimiterIdle /\ HandlerIdle /\ UtilIdle /\ ChainIdle

\* the proxy at rest: no call made yet
ProxyIdle ==
  /\ entry = [p \in Calls |-> "proxyRequest"]
  /\ pc = [p \in Calls |-> "idle"]
  /\ args = [p \in Calls |-> NoRequest]
  /\ ctxOf = [p \in Calls |-> 0]
  /\ subrequestCount = [c \in Ctx |-> 0]
  /\ inFlightRequests = [k \in Keys |-> 0]
  /\ timers = <<>>
  /\ microtasks = <<>>
  /\ awaiting = [p \in Calls |-> 0]
  /\ promise = [p \in Calls |-> NoRet]
  /\ bodyUsed = [p \in Calls |-> FALSE]
  /\ ret = [p \in Calls |-> NoRet]
  /\ fw = [p \in Calls |-> NoFrame]
  /\ rd = [p \in Calls |-> NoRead]
  /\ fetchCalls = [p \in Calls |-> 0]
  /\ fetchTotal = [c \in Ctx |-> 0]
  /\ sleeps = [p \in Calls |-> 0]
  /\ fetchLog = [p \in Calls |-> <<>>]
  /\ pendingAtCall = [p \in Calls |-> {}]

Init == ProxyIdle /\ MiddlewareIdle

(***************************************************************************)
(* Steps shared by the actions.                                            *)
(***************************************************************************)
\* the promise of p settles with `out`: the call of p ends with it and the
\* continuations of the calls awaiting it are queued
Settle(p, out) ==
  /\ pc' = [pc EXCEPT ![p] = "done"]
  /\ promise' = [promise EXCEPT ![p] = out]
  /\ ret' = [ret EXCEPT ![p] = out]
  /\ microtasks' = microtasks \o Waiters(p)

\* the spy on fetch counts a call issued for the inbound request of context
\* c (0 when fetchWithRetry is called outside any proxyRequest call)
CountFetch(c) ==
  fetchTotal' = IF c \in Ctx THEN [fetchTotal EXCEPT ![c] = @ + 1] ELSE fetchTotal

\* proxy.ts 83-104 with the synchronous start of executeProxyRequest: a GET or
\* HEAD issues its first fetch at once, any other method first reads the
\* inbound body; the promise is stored and its cleanup timer scheduled
StartExec(p, r) ==
  /\ promise' = [promise EXCEPT ![p] = Pending]
  /\ IF r.method # "GET" /\ r.method # "HEAD"
     THEN /\ pc' = [pc EXCEPT ![p] = "text"]
          /\ UNCHANGED <<fw, fetchCalls, fetchTotal>>
     ELSE /\ pc' = [pc EXCEPT ![p] = "fetch"]
          /\ fw' = [fw EXCEPT ![p] = NewFrame(MAX_RETRIES, "proxy")]
          /\ fetchCalls' = [fetchCalls EXCEPT ![p] = @ + 1]
          /\ CountFetch(ctxOf'[p])
  /\ IF shouldDeduplicate(r.method)
     THEN /\ inFlightRequests' = [inFlightRequests EXCEPT ![RequestKey(r)] = p]
          /\ timers' = Append(timers, p)
     ELSE UNCHANGED <<inFlightRequests, timers>>

\* fetchWithRetry returns `response`: to its direct caller, or to
\* executeProxyRequest, which goes on to processResponse (a response without
\* a body is processed at once, with data null)
FetchReturn(p, f, response) ==
  /\ fw' = [fw EXCEPT ![p] = f]
  /\ IF entry[p] = "fetchWithRetry"
     THEN Settle(p, [kind |-> "fetched", response |-> response]) /\ UNCHANGED rd
     ELSE IF ~response.hasBody
     THEN Settle(p, Finish(args[p], response, JNull)) /\ UNCHANGED rd
     ELSE /\ pc' = [pc EXCEPT ![p] = "read"]
          /\ rd' = [rd EXCEPT ![p] = NewRead(response)]
          /\ UNCHANGED <<promise, ret, microtasks>>

\* fetchWithRetry throws lastError: to its direct caller, or into the catch of
\* executeProxyRequest, which maps it to a 500
FetchRaise(p, f) ==
  /\ fw' = [fw EXCEPT ![p] = f]
  /\ UNCHANGED rd
  /\ IF entry[p] = "fetchWithRetry"
     THEN Settle(p, [kind |-> "thrown", attempt |-> f.lastError])
     ELSE Settle(p, HTTPException(500, "Failed to proxy request"))

\* the loop ends without a return (its last attempt threw)
LoopExit(p, f) ==
  IF f.lastResponse # NoResponse
  THEN FetchReturn(p, f, f.lastResponse)
  ELSE FetchRaise(p, f)

\* onRetry called with the number of the attempt to come
OnRetryNext(f) == [f EXCEPT !.onRetry = Append(@, f.attempt + 1)]

\* onRetry?.(attempt): the frame keeps the arguments of the calls
OnRetry(f) == [f EXCEPT !.onRetry = Append(@, f.attempt)]

\* `attempt < maxRetries && shouldRetry(response)`: the predicate is called
\* only when attempts remain; the frame keeps the attempts at which it was
Consult(f) ==
  IF f.attempt < f.maxRetries THEN [f EXCEPT !.consulted = Append(@, f.attempt)] ELSE f

\* the backoff sleep after an attempt starts, onRetry called first
StartSleep(p, f) ==
  /\ fw' = [fw EXCEPT ![p] = OnRetry(f)]
  /\ pc' = [pc EXCEPT ![p] = "sleep"]
  /\ sleeps' = [sleeps EXCEPT ![p] = @ + 1]
  /\ UNCHANGED <<promise, ret, microtasks, rd>>

(***************************************************************************)
(* Actions.                                                                *)
(***************************************************************************)
\* proxyRequest(c, path, schema, queryParams) up to its first suspension.
\* Slots are taken in order, and contexts are numbered in the order they
\* first call.
\* the check off by one: the call at the limit is let through
OverBudgetStrict(requestCount) == requestCount > MAX_SUBREQUESTS

\* requestCount >= MAX_SUBREQUESTS
OverBudget(requestCount) == requestCount >= MAX_SUBREQUESTS

\* the calls for the key of r whose upstream call has not completed
PendingFor(r) ==
  { q \in Calls : /\ entry[q] = "proxyRequest"
                  /\ promise[q] = Pending
                  /\ RequestKey(args[q]) = RequestKey(r) }

\* one counter for the isolate: every context sees the increment
CountShared(c) == subrequestCount' = [x \in Ctx |-> subrequestCount[x] + 1]

\* the increment left out
CountNothing(c) == UNCHANGED subrequestCount

\* c.set('subrequestCount', requestCount + 1)
CountSubrequest(c) == subrequestCount' = [subrequestCount EXCEPT ![c] = @ + 1]

Call(p, c, r) ==
  /\ UNCHANGED middlewareVars
  /\ microtasks = <<>>
  /\ entry[p] = "proxyRequest"
  /\ pc[p] = "idle"
  /\ \A q \in Calls : q < p => pc[q] # "idle"
  /\ c = 1 \/ \E q \in Calls : ctxOf[q] = c - 1
  /\ args' = [args EXCEPT ![p] = r]
  /\ ctxOf' = [ctxOf EXCEPT ![p] = c]
  /\ IF OverBudget(subrequestCount[c])
     THEN /\ pc' = [pc EXCEPT ![p] = "done"]
          /\ ret' = [ret EXCEPT ![p] = HTTPException(429, "Too many subrequests in this request")]
          /\ UNCHANGED <<subrequestCount, inFlightRequests, timers, microtasks, awaiting,
                         promise, fw, fetchCalls, fetchTotal, pendingAtCall>>
     ELSE /\ CountSubrequest(c)
          /\ pendingAtCall' = [pendingAtCall EXCEPT ![p] =
                                 IF shouldDeduplicate(r.method) THEN PendingFor(r) ELSE {}]
          /\ IF shouldDeduplicate(r.method) /\ inFlightRequests[RequestKey(r)] # 0
             THEN LET q == inFlightRequests[RequestKey(r)] IN
                  /\ awaiting' = [awaiting EXCEPT ![p] = q]
                  /\ pc' = [pc EXCEPT ![p] = "await"]
                  /\ microtasks' = IF Settled(q) THEN <<p>> ELSE <<>>
                  /\ UNCHANGED <<inFlightRequests, timers, promise, ret, fw, fetchCalls, fetchTotal>>
             ELSE /\ StartExec(p, r)
                  /\ UNCHANGED <<awaiting, ret, microtasks>>
  /\ UNCHANGED <<entry, bodyUsed, rd, sleeps, fetchLog>>

\* the catch rethrows: the waiter ends with the failure of the awaited call
Rethrow(w) ==
  /\ ret' = [ret EXCEPT ![w] = promise[awaiting[w]]]
  /\ pc' = [pc EXCEPT ![w] = "done"]
  /\ UNCHANGED <<promise, fw, fetchCalls, fetchTotal, inFlightRequests, timers>>

\* the catch swallows the failure and the caller never goes on
Stall(w) ==
  UNCHANGED <<pc, promise, ret, fw, fetchCalls, fetchTotal, inFlightRequests, timers>>

\* the catch logs and falls through to the waiter's own request
OwnRequest(w) ==
  /\ StartExec(w, args[w])
  /\ UNCHANGED ret

\* the continuation of `await inFlight`: a clone of the awaited response, or,
\* when the awaited promise rejected or clone() throws on a consumed body,
\* the call's own request
Resume(w) ==
  /\ UNCHANGED middlewareVars
  /\ microtasks # <<>>
  /\ Head(microtasks) = w
  /\ microtasks' = Tail(microtasks)
  /\ UNCHANGED <<entry, args, ctxOf, subrequestCount, awaiting, bodyUsed, rd, sleeps,
                 fetchLog, pendingAtCall>>
  /\ LET q == awaiting[w] IN
     IF promise[q].kind = "response" /\ ~bodyUsed[q]
     THEN /\ ret' = [ret EXCEPT ![w] = promise[q]]
          /\ pc' = [pc EXCEPT ![w] = "done"]
          /\ UNCHANGED <<promise, fw, fetchCalls, fetchTotal, inFlightRequests, timers>>
     ELSE OwnRequest(w)

\* `await c.req.text()` completes: fetchWithRetry starts and issues attempt 1
TextDone(p) ==
  /\ UNCHANGED middlewareVars
  /\ microtasks = <<>>
  /\ pc[p] = "text"
  /\ pc' = [pc EXCEPT ![p] = "fetch"]
  /\ fw' = [fw EXCEPT ![p] = NewFrame(MAX_RETRIES, "proxy")]
  /\ fetchCalls' = [fetchCalls EXCEPT ![p] = @ + 1]
  /\ CountFetch(ctxOf[p])
  /\ UNCHANGED <<entry, args, ctxOf, subrequestCount, inFlightRequests, timers, microtasks,
                 awaiting, promise, bodyUsed, ret, rd, sleeps, fetchLog, pendingAtCall>>

\* the loop bound off by one: the last retry is never made
RetryResponseShort(f, response) ==
  f.attempt < f.maxRetries - 1 /\ shouldRetry(f.shouldRetry, response.status)

\* the predicate left out: any response is retried while attempts remain
RetryResponseAlways(f, response) == f.attempt < f.maxRetries

\* attempt < maxRetries && shouldRetry(response)
RetryResponse(f, response) ==
  f.attempt < f.maxRetries /\ shouldRetry(f.shouldRetry, response.status)

\* `await fetch(url, options)` resolves with a response
FetchResponse(p, response) ==
  /\ UNCHANGED middlewareVars
  /\ microtasks = <<>>
  /\ pc[p] = "fetch"
  /\ fetchLog' = [fetchLog EXCEPT ![p] = Append(@, response)]
  /\ LET f == Consult([fw[p] EXCEPT !.lastResponse = response]) IN
     IF RetryResponse(f, response)
     THEN StartSleep(p, f)
     ELSE FetchReturn(p, f, response) /\ UNCHANGED sleeps
  /\ UNCHANGED <<entry, args, ctxOf, subrequestCount, inFlightRequests, timers, awaiting,
                 bodyUsed, fetchCalls, fetchTotal, pendingAtCall>>

\* `await fetch(url, options)` rejects (a network error)
FetchThrow(p) ==
  /\ UNCHANGED middlewareVars
  /\ microtasks = <<>>
  /\ pc[p] = "fetch"
  /\ fetchLog' = [fetchLog EXCEPT ![p] = Append(@, Thrown)]
  /\ LET f == [fw[p] EXCEPT !.lastError = fw[p].attempt] IN
     IF f.attempt < f.maxRetries
     THEN StartSleep(p, f)
     ELSE LoopExit(p, f) /\ UNCHANGED sleeps
  /\ UNCHANGED <<entry, args, ctxOf, subrequestCount, inFlightRequests, timers, awaiting,
                 bodyUsed, fetchCalls, fetchTotal, pendingAtCall>>

\* the backoff sleep ends and the loop continues: attempt++, and the next
\* attempt is issued while attempt <= maxRetries.  The cleanup timer the call
\* scheduled before its first attempt has fired by then, its delay being
\* shorter than any backoff delay
SleepDone(p) ==
  /\ UNCHANGED middlewareVars
  /\ microtasks = <<>>
  /\ pc[p] = "sleep"
  /\ CLEANUP_DELAY < MinBackoff => p \notin Range(timers)
  /\ LET f == [fw[p] EXCEPT !.attempt = @ + 1] IN
     IF f.attempt <= f.maxRetries
     THEN /\ fw' = [fw EXCEPT ![p] = f]
          /\ pc' = [pc EXCEPT ![p] = "fetch"]
          /\ fetchCalls' = [fetchCalls EXCEPT ![p] = @ + 1]
          /\ CountFetch(ctxOf[p])
          /\ UNCHANGED <<microtasks, promise, ret, rd>>
     ELSE LoopExit(p, f) /\ UNCHANGED <<fetchCalls, fetchTotal>>
  /\ UNCHANGED <<entry, args, ctxOf, subrequestCount, inFlightRequests, timers,
                 awaiting, bodyUsed, sleeps, fetchLog, pendingAtCall>>

\* the limit off by one: a body of exactly the limit is refused
OverLimitInclusive(totalSize) == totalSize >= MAX_RESPONSE_SIZE

\* totalSize > MAX_RESPONSE_SIZE
OverLimit(totalSize) == totalSize > MAX_RESPONSE_SIZE

\* `await reader.read()` yields a chunk of `value` bytes
ReadChunk(p, value) ==
  /\ UNCHANGED middlewareVars
  /\ microtasks = <<>>
  /\ pc[p] = "read"
  /\ LET totalSize == rd[p].totalSize + value IN
     IF OverLimit(totalSize)
     THEN /\ rd' = [rd EXCEPT ![p] = [@ EXCEPT !.totalSize = totalSize,
                                                !.cancelled = TRUE]]
          /\ Settle(p, HTTPException(413, "Response too large"))
     ELSE /\ rd' = [rd EXCEPT ![p] = [@ EXCEPT !.totalSize = totalSize,
                                                !.chunks = Append(@, value)]]
          /\ UNCHANGED <<pc, promise, ret, microtasks>>
  /\ UNCHANGED <<entry, args, ctxOf, subrequestCount, inFlightRequests, timers, awaiting,
                 bodyUsed, fw, fetchCalls, fetchTotal, sleeps, fetchLog, pendingAtCall>>

\* `await reader.read()` reports the end of the stream, whose chunks decode
\* to `text` (to the empty text when there were none): parse, and in
\* executeProxyRequest validate and shape the response
ReadDone(p, text) ==
  /\ UNCHANGED middlewareVars
  /\ microtasks = <<>>
  /\ pc[p] = "read"
  /\ LET bodyText == IF rd[p].chunks = <<>> THEN "" ELSE text
         parsed == JSONParse(bodyText) IN
     /\ rd' = [rd EXCEPT ![p] = [@ EXCEPT !.bodyText = bodyText]]
     /\ IF ~parsed.ok
        THEN Settle(p, HTTPException(502, "Invalid JSON response from upstream API"))
        ELSE IF entry[p] = "processResponse"
        THEN Settle(p, [kind |-> "processed", data |-> parsed.data, bodyText |-> bodyText,
                        totalSize |-> rd[p].totalSize])
        ELSE Settle(p, Finish(args[p], rd[p].response, parsed.data))
  /\ UNCHANGED <<entry, args, ctxOf, subrequestCount, inFlightRequests, timers, awaiting,
                 bodyUsed, fw, fetchCalls, fetchTotal, sleeps, fetchLog, pendingAtCall>>

\* the entry deleted only once the call has settled
CleanupSettled(p) ==
  inFlightRequests' = IF promise[p].kind \in {"response", "error"}
                      THEN [inFlightRequests EXCEPT ![RequestKey(args[p])] = 0]
                      ELSE inFlightRequests

\* inFlightRequests.delete(requestKey), in the timer the call of p scheduled
Cleanup(p) == inFlightRequests' = [inFlightRequests EXCEPT ![RequestKey(args[p])] = 0]

\* the oldest cleanup timer fires
Timeout ==
  /\ UNCHANGED middlewareVars
  /\ microtasks = <<>>
  /\ timers # <<>>
  /\ Cleanup(Head(timers))
  /\ timers' = Tail(timers)
  /\ UNCHANGED <<entry, pc, args, ctxOf, subrequestCount, microtasks, awaiting, promise,
                 bodyUsed, ret, fw, rd, fetchCalls, fetchTotal, sleeps, fetchLog, pendingAtCall>>

\* the caller (or the runtime sending it) consumes the body of the response it
\* was given, while that response can still be reached through the registry
Consume(p) ==
  /\ UNCHANGED middlewareVars
  /\ microtasks = <<>>
  /\ promise[p].kind = "response"
  /\ ~bodyUsed[p]
  /\ inFlightRequests[RequestKey(args[p])] = p
  /\ bodyUsed' = [bodyUsed EXCEPT ![p] = TRUE]
  /\ UNCHANGED <<entry, pc, args, ctxOf, subrequestCount, inFlightRequests, timers,
                 microtasks, awaiting, promise, ret, fw, rd, fetchCalls, fetchTotal, sleeps, fetchLog,
                 pendingAtCall>>

(***************************************************************************)
(* Spec: several proxyRequest calls on one event loop.                     *)
(***************************************************************************)
Next ==
  \/ \E p \in Calls, c \in Ctx, r \in FewRequests : Call(p, c, r)
  \/ \E p \in Calls : Resume(p)
  \/ \E p \in Calls : TextDone(p)
  \/ \E p \in Calls, response \in FewUpstream : FetchResponse(p, response)
  \/ \E p \in Calls : FetchThrow(p)
  \/ \E p \in Calls : SleepDone(p)
  \/ \E p \in Calls, value \in FewChunkSizes :
       Len(rd[p].chunks) < FewChunks /\ ReadChunk(p, value)
  \/ \E p \in Calls, text \in FewTexts : ReadDone(p, text)
  \/ Timeout
  \/ \E p \in Calls : Consume(p)

Spec == Init /\ [][Next]_vars

(***************************************************************************)
(* SpecFair: Spec where no new call has to arrive, and every fetch, sleep, *)
(* body read, inbound body read, promise continuation and timer that is    *)
(* pending eventually completes.                                           *)
(***************************************************************************)
FetchSettles(p) == FetchThrow(p) \/ \E response \in FewUpstream : FetchResponse(p, response)

ReadEnds(p) == \E text \in FewTexts : ReadDone(p, text)

Fairness ==
  /\ WF_vars(Timeout)
  /\ \A p \in Calls :
       /\ WF_vars(Resume(p))
       /\ WF_vars(TextDone(p))
       /\ WF_vars(FetchSettles(p))
       /\ WF_vars(SleepDone(p))
       /\ WF_vars(ReadEnds(p))

SpecFair == Init /\ [][Next]_vars /\ Fairness

(***************************************************************************)
(* SpecTimers: Spec where the timers and the promise continuations run,    *)
(* while a fetch, a sleep or a body read may stay pending for ever.        *)
(***************************************************************************)
SpecTimers ==
  Init /\ [][Next]_vars /\ WF_vars(Timeout) /\ \A p \in Calls : WF_vars(Resume(p))

(***************************************************************************)
(* SpecCall: one proxyRequest call, against every upstream answer.         *)
(***************************************************************************)
NextCall ==
  \/ \E r \in Requests : Call(1, 1, r)
  \/ TextDone(1)
  \/ \E response \in Upstream : FetchResponse(1, response)
  \/ FetchThrow(1)
  \/ SleepDone(1)
  \/ \E value \in ChunkSizes : Len(rd[1].chunks) < MaxChunks /\ ReadChunk(1, value)
  \/ \E text \in Texts : ReadDone(1, text)
  \/ Timeout

SpecCall == Init /\ [][NextCall]_vars

(***************************************************************************)
(* SpecBudget: one inbound request whose handler makes one proxyRequest    *)
(* call after another.                                                     *)
(***************************************************************************)
\* the call has ended, its registry entry is evicted and nothing awaits it:
\* the handler goes on, and the slot is free for its next call
Return(p) ==
  /\ UNCHANGED middlewareVars
  /\ microtasks = <<>>
  /\ pc[p] = "done"
  /\ p \notin Range(timers)
  /\ \A k \in Keys : inFlightRequests[k] # p
  /\ \A w \in Calls : ~(pc[w] = "await" /\ awaiting[w] = p)
  /\ pc' = [pc EXCEPT ![p] = "idle"]
  /\ args' = [args EXCEPT ![p] = NoRequest]
  /\ ctxOf' = [ctxOf EXCEPT ![p] = 0]
  /\ awaiting' = [awaiting EXCEPT ![p] = 0]
  /\ promise' = [promise EXCEPT ![p] = NoRet]
  /\ bodyUsed' = [bodyUsed EXCEPT ![p] = FALSE]
  /\ ret' = [ret EXCEPT ![p] = NoRet]
  /\ fw' = [fw EXCEPT ![p] = NoFrame]
  /\ rd' = [rd EXCEPT ![p] = NoRead]
  /\ fetchCalls' = [fetchCalls EXCEPT ![p] = 0]
  /\ UNCHANGED fetchTotal
  /\ sleeps' = [sleeps EXCEPT ![p] = 0]
  /\ fetchLog' = [fetchLog EXCEPT ![p] = <<>>]
  /\ pendingAtCall' = [pendingAtCall EXCEPT ![p] = {}]
  /\ UNCHANGED <<entry, subrequestCount, inFlightRequests, timers, microtasks>>

NextBudget ==
  \/ \E r \in FewRequests : Call(1, 1, r)
  \/ TextDone(1)
  \/ \E response \in FewUpstream : FetchResponse(1, response)
  \/ FetchThrow(1)
  \/ SleepDone(1)
  \/ \E value \in FewChunkSizes : Len(rd[1].chunks) < FewChunks /\ ReadChunk(1, value)
  \/ \E text \in FewTexts : ReadDone(1, text)
  \/ Timeout
  \/ Return(1)

SpecBudget == Init /\ [][NextBudget]_vars

(***************************************************************************)
(* SpecContexts: two inbound requests on one isolate.  The handler of the  *)
(* first makes one proxyRequest call after another, up to its budget and   *)
(* beyond; the handler of the second makes a few calls meanwhile.  The     *)
(* upstream answers every fetch with a 200, whose body may fail to parse   *)
(* or to validate.                                                         *)
(***************************************************************************)
OneUrl == { r \in FewRequests : r.query = "" /\ r.method = "GET" }

NextContexts ==
  \/ \E r \in OneUrl : Call(1, 1, r)
  \/ \E r \in OneUrl : subrequestCount[2] < MaxOtherCalls /\ Call(2, 2, r)
  \/ \E p \in Calls : Resume(p)
  \/ \E p \in Calls : FetchResponse(p, Resp(200, TRUE))
  \/ \E p \in Calls, value \in FewChunkSizes :
       Len(rd[p].chunks) < FewChunks /\ ReadChunk(p, value)
  \/ \E p \in Calls, text \in FewTexts : ReadDone(p, text)
  \/ Timeout
  \/ \E p \in Calls : Return(p)

SpecContexts == Init /\ [][NextContexts]_vars

(***************************************************************************)
(* SpecFetch: fetchWithRetry called directly, with any maxRetries and any  *)
(* retry predicate; the state after its first fetch is issued.             *)
(***************************************************************************)
InitFetch ==
  /\ MiddlewareIdle
  /\ entry = [p \in Calls |-> IF p = 1 THEN "fetchWithRetry" ELSE "proxyRequest"]
  /\ pc = [p \in Calls |-> IF p = 1 THEN "fetch" ELSE "idle"]
  /\ args = [p \in Calls |-> NoRequest]
  /\ ctxOf = [p \in Calls |-> 0]
  /\ subrequestCount = [c \in Ctx |-> 0]
  /\ inFlightRequests = [k \in Keys |-> 0]
  /\ timers = <<>>
  /\ microtasks = <<>>
  /\ awaiting = [p \in Calls |-> 0]
  /\ promise = [p \in Calls |-> IF p = 1 THEN Pending ELSE NoRet]
  /\ bodyUsed = [p \in Calls |-> FALSE]
  /\ ret = [p \in Calls |-> NoRet]
  /\ \E maxRetries \in 1..MaxRetriesOpt, pred \in Predicates :
       fw = [p \in Calls |-> IF p = 1 THEN NewFrame(maxRetries, pred) ELSE NoFrame]
  /\ rd = [p \in Calls |-> NoRead]
  /\ fetchCalls = [p \in Calls |-> IF p = 1 THEN 1 ELSE 0]
  /\ fetchTotal = [c \in Ctx |-> 0]
  /\ sleeps = [p \in Calls |-> 0]
  /\ fetchLog = [p \in Calls |-> <<>>]
  /\ pendingAtCall = [p \in Calls |-> {}]
  /\ fetchLog = [p \in Calls |-> <<>>]
  /\ pendingAtCall = [p \in Calls |-> {}]

NextFetch ==
  \/ \E response \in FetchUpstream : FetchResponse(1, response)
  \/ FetchThrow(1)
  \/ SleepDone(1)

SpecFetch == InitFetch /\ [][NextFetch]_vars

(***************************************************************************)
(* SpecReader: processResponse called directly; the state after its        *)
(* synchronous start (returned at once for a response without a body).     *)
(***************************************************************************)
InitReader ==
  /\ MiddlewareIdle
  /\ entry = [p \in Calls |-> IF p = 1 THEN "processResponse" ELSE "proxyRequest"]
  /\ args = [p \in Calls |-> NoRequest]
  /\ ctxOf = [p \in Calls |-> 0]
  /\ subrequestCount = [c \in Ctx |-> 0]
  /\ inFlightRequests = [k \in Keys |-> 0]
  /\ timers = <<>>
  /\ microtasks = <<>>
  /\ awaiting = [p \in Calls |-> 0]
  /\ bodyUsed = [p \in Calls |-> FALSE]
  /\ fw = [p \in Calls |-> NoFrame]
  /\ fetchCalls = [p \in Calls |-> 0]
  /\ fetchTotal = [c \in Ctx |-> 0]
  /\ sleeps = [p \in Calls |-> 0]
  /\ fetchLog = [p \in Calls |-> <<>>]
  /\ pendingAtCall = [p \in Calls |-> {}]
  /\ \E response \in ReaderResponses :
       LET out == IF response.hasBody THEN Pending
                  ELSE [kind |-> "processed", data |-> JNull, bodyText |-> "",
                        totalSize |-> 0] IN
       /\ pc = [p \in Calls |-> IF p # 1 THEN "idle"
                                ELSE IF response.hasBody THEN "read" ELSE "done"]
       /\ rd = [p \in Calls |-> IF p = 1 /\ response.hasBody THEN NewRead(response)
                                ELSE NoRead]
       /\ promise = [p \in Calls |-> IF p = 1 THEN out ELSE NoRet]
       /\ ret = [p \in Calls |-> IF p = 1 /\ ~response.hasBody THEN out ELSE NoRet]

NextReader ==
  \/ \E value \in ReaderChunkSizes : Len(rd[1].chunks) < MaxChunks /\ ReadChunk(1, value)
  \/ \E text \in Texts : ReadDone(1, text)

SpecReader == InitReader /\ [][NextReader]_vars

(***************************************************************************)
(* The rateLimiter middleware: one action per stretch between awaits.      *)
(***************************************************************************)
\* data.resetTime < now
Expired(data, now) == data.resetTime < now

\* a variant that denies only once the count is above the limit
LimitPassed(data, requests) == data.count > requests

\* data.count >= options.requests
LimitReached(data, requests) == data.count >= requests

\* Math.ceil((data.resetTime - now) / 1000)
RemainingSeconds(data, now) == CeilDiv(data.resetTime - now, 1000)

\* a variant that starts the new window with resetTime = now
NewWindowNoLength(now) == RateLimitData(1, now)

\* newData = { count: 1, resetTime: now + windowMs }
NewWindow(now) == RateLimitData(1, now + windowMs)

\* a variant that replaces the count read by 1 instead of adding 1 to it
IncrementedReset(data) == RateLimitData(1, data.resetTime)

\* data.count++ : the record read with its count raised by one
Incremented(data) == RateLimitData(data.count + 1, data.resetTime)

\* the rate limit headers set for an allowed request whose record is `data`
AllowHeaders(data) ==
  [limit |-> cfg.requests, remaining |-> cfg.requests - data.count,
   reset |-> data.resetTime \div 1000, retryAfter |-> -1]

\* a variant of the catch block that lets the request through in every mode
FailOpen(r) == [r EXCEPT !.pc = "done", !.failed = TRUE, !.out = Allowed]

\* the catch block on an error of the store: fail closed in production, fail
\* open otherwise
FailPolicy(r) ==
  IF cfg.NODE_ENV = "production"
  THEN [r EXCEPT !.pc = "done", !.failed = TRUE, !.out = InternalError]
  ELSE [r EXCEPT !.pc = "done", !.failed = TRUE, !.out = Allowed]

\* the middleware up to `await kv.get`: the checks of the namespace binding
RateLimitStart(i) ==
  /\ rl[i].pc = "idle"
  /\ \A j \in Reqs : j < i => rl[j].pc # "idle"
  /\ rl' = [rl EXCEPT ![i] =
              IF ~cfg.kv /\ cfg.NODE_ENV = "production"
              THEN [@ EXCEPT !.pc = "done", !.failed = TRUE, !.out = InternalError]
              ELSE IF ~cfg.kv
              THEN [@ EXCEPT !.pc = "done", !.failed = TRUE, !.out = Allowed]
              ELSE [@ EXCEPT !.pc = "get", !.now = clock]]
  /\ UNCHANGED <<clock, kv, cfg, kvPuts, proxyVars, handlerVars, utilVars, chainVars>>

\* `await kv.get(key, 'json')` resolves: a new window is to be written, the
\* request is denied, or the count is incremented and (ttl > 0) written
KvGet(i) ==
  /\ rl[i].pc = "get"
  /\ LET r == rl[i]
         data == Stored(clock) IN
     rl' = [rl EXCEPT ![i] =
       IF ~data.present \/ Expired(data, r.now)
       THEN [r EXCEPT !.pc = "put", !.data = data,
                      !.newData = NewWindow(r.now),
                      !.ttl = windowSeconds]
       ELSE IF LimitReached(data, cfg.requests)
       THEN LET retryAfter == RemainingSeconds(data, r.now) IN
            [r EXCEPT !.pc = "done", !.data = data,
                      !.hdr = [limit |-> cfg.requests, remaining |-> 0,
                               reset |-> data.resetTime \div 1000,
                               retryAfter |-> retryAfter],
                      !.out = RateLimitExceeded(retryAfter)]
       ELSE LET inc == Incremented(data)
                ttl == RemainingSeconds(data, r.now) IN
            IF ttl > 0
            THEN [r EXCEPT !.pc = "put", !.data = data, !.newData = inc, !.ttl = ttl]
            ELSE [r EXCEPT !.pc = "done", !.data = data, !.newData = inc, !.ttl = ttl,
                           !.hdr = AllowHeaders(inc), !.out = Allowed]]
  /\ UNCHANGED <<clock, kv, cfg, kvPuts, proxyVars, handlerVars, utilVars, chainVars>>

\* `await kv.get` rejects
KvGetThrow(i) ==
  /\ rl[i].pc = "get"
  /\ rl' = [rl EXCEPT ![i] = FailPolicy(@)]
  /\ UNCHANGED <<clock, kv, cfg, kvPuts, proxyVars, handlerVars, utilVars, chainVars>>

\* `await kv.put(key, JSON.stringify(...), { expirationTtl })` resolves: the
\* headers are set and the downstream handler runs
KvPut(i) ==
  /\ rl[i].pc = "put"
  /\ kv' = [data |-> rl[i].newData, expiresAt |-> clock + rl[i].ttl * 1000]
  /\ kvPuts' = Append(kvPuts, [by |-> i, value |-> rl[i].newData,
                               expirationTtl |-> rl[i].ttl])
  /\ rl' = [rl EXCEPT ![i] = [@ EXCEPT !.pc = "done", !.hdr = AllowHeaders(rl[i].newData),
                                        !.out = Allowed]]
  /\ UNCHANGED <<clock, cfg, proxyVars, handlerVars, utilVars, chainVars>>

\* `await kv.put` rejects
KvPutThrow(i) ==
  /\ rl[i].pc = "put"
  /\ rl' = [rl EXCEPT ![i] = FailPolicy(@)]
  /\ UNCHANGED <<clock, kv, cfg, kvPuts, proxyVars, handlerVars, utilVars, chainVars>>

\* time passes
Tick(t) ==
  /\ t > clock
  /\ clock' = t
  /\ UNCHANGED <<kv, rl, cfg, kvPuts, proxyVars, handlerVars, utilVars, chainVars>>

(***************************************************************************)
(* SpecRate: concurrent requests for one key through one rate limiter,     *)
(* with any limit, in either mode, the store failing or not configured.    *)
(***************************************************************************)
InitRate ==
  /\ ProxyIdle
  /\ HandlerIdle
  /\ UtilIdle
  /\ ChainIdle
  /\ clock = 0
  /\ kv = NoRecord
  /\ rl = [i \in Reqs |-> IdleReq]
  /\ kvPuts = <<>>
  /\ \E requests \in 1..MaxLimit, mode \in Modes, bound \in BOOLEAN :
       cfg = [requests |-> requests, NODE_ENV |-> mode, kv |-> bound]

NextRate ==
  \/ \E i \in Racing : RateLimitStart(i)
  \/ \E i \in Racing : KvGet(i)
  \/ \E i \in Racing : KvGetThrow(i)
  \/ \E i \in Racing : KvPut(i)
  \/ \E i \in Racing : KvPutThrow(i)
  \/ \E t \in TimePoints : Tick(t)

SpecRate == InitRate /\ [][NextRate]_vars

(***************************************************************************)
(* SpecRateSeq: the requests for one key processed one at a time, the      *)
(* store configured and working.                                           *)
(***************************************************************************)
InitRateSeq ==
  /\ ProxyIdle
  /\ HandlerIdle
  /\ UtilIdle
  /\ ChainIdle
  /\ clock = 0
  /\ kv = NoRecord
  /\ rl = [i \in Reqs |-> IdleReq]
  /\ kvPuts = <<>>
  /\ \E requests \in 1..MaxLimit :
       cfg = [requests |-> requests, NODE_ENV |-> "production", kv |-> TRUE]

NextRateSeq ==
  \/ \E i \in Reqs :
       (\A j \in Reqs : rl[j].pc \in {"idle", "done"}) /\ RateLimitStart(i)
  \/ \E i \in Reqs : KvGet(i)
  \/ \E i \in Reqs : KvPut(i)
  \/ \E t \in TimePoints : Tick(t)

SpecRateSeq == InitRateSeq /\ [][NextRateSeq]_vars

(***************************************************************************)
(* The middleware chain of index.ts from the rate limiters on: the         *)
(* rateLimiter mounted on the path, authMiddleware, then the route         *)
(* handler.  Strings are sequences of characters; the namespace holds one  *)
(* record per key.                                                         *)
(***************************************************************************)
\* s.startsWith(prefix)
StartsWith(s, prefix) == Len(s) >= Len(prefix) /\ SubSeq(s, 1, Len(prefix)) = prefix

\* s.substring(start)
Substring(s, start) == SubSeq(s, start + 1, Len(s))

\* '/v1/' and '/beta/', the paths under which the api and beta limiters are mounted
V1Mount == <<"/", "v", "1", "/">>
BetaMount == <<"/", "b", "e", "t", "a", "/">>

HealthPath == <<"/", "h", "e", "a", "l", "t", "h">>
DocsPath == <<"/", "d", "o", "c", "s">>
ScalarPath == <<"/", "s", "c", "a", "l", "a", "r">>
OpenApiPath == <<"/", "o", "p", "e", "n", "a", "p", "i", ".", "j", "s", "o", "n">>
LlmsPath == <<"/", "l", "l", "m", "s", ".", "t", "x", "t">>

\* PUBLIC_PATHS = ['/health', '/docs', '/scalar', '/openapi.json', '/llms.txt']
PUBLIC_PATHS == {HealthPath, DocsPath, ScalarPath, OpenApiPath, LlmsPath}

\* 'Bearer ' and headers that are not of that form
Bearer == <<"B", "e", "a", "r", "e", "r", " ">>
Basic == <<"B", "a", "s", "i", "c", " ">>

\* sixteen characters of a key
X16 == [i \in 1..16 |-> "x"]
Y16 == [i \in 1..16 |-> "y"]

\* validatedEnv.WORKER_API_KEY: z.string().min(32), here 32 characters
WORKER_API_KEY == X16 \o X16

\* tokens sent: half the key, the key, a token of the key's length that differs
\* from it, the key followed by one more character
Tokens == {X16, WORKER_API_KEY, X16 \o Y16, WORKER_API_KEY \o <<"x">>}

\* the values of the Authorization header tried
AuthHeaders ==
  {NoHeader, Header(<< >>), Header(Basic \o WORKER_API_KEY)}
    \cup { Header(Bearer \o token) : token \in Tokens }

\* the paths requested where authentication is looked at
ChainPaths ==
  {HealthPath, HealthPath \o <<"/">>, V1Mount \o <<"a">>, BetaMount \o <<"a">>}

\* a variant of secureCompare that compares the lengths only
secureCompareLength(a, b) == Len(a) = Len(b)

\* secureCompare: false on different lengths, else the OR of the XORs of the
\* character codes is 0, which is so when every position holds the same character
secureCompare(a, b) ==
  IF Len(a) # Len(b) THEN FALSE ELSE \A i \in 1..Len(a) : a[i] = b[i]

\* throw new HTTPException(401, { message })
Unauthorized(message) == HTTPException(401, message)

\* authMiddleware: next() for a public path or the key sent as a Bearer token,
\* else one of the three 401 errors
authMiddleware(path, authHeader, key) ==
  IF path \in PUBLIC_PATHS THEN Allowed
  ELSE IF ~authHeader.present \/ authHeader.value = << >>
  THEN Unauthorized("Missing authorization header")
  ELSE IF ~StartsWith(authHeader.value, Bearer)
  THEN Unauthorized("Invalid authorization header format")
  ELSE LET providedToken == Substring(authHeader.value, 7) IN
       IF Len(providedToken) < 32 THEN Unauthorized("Invalid API key")
       ELSE IF ~secureCompare(providedToken, key) THEN Unauthorized("Invalid API key")
       ELSE Allowed

\* keyPrefix of the limiter that app.use mounts on the path: api on '/v1/*',
\* beta on '/beta/*', docs on '/docs' and '/scalar'; << >> where none is mounted
LimiterFor(path) ==
  IF StartsWith(path, V1Mount) THEN <<"a", "p", "i">>
  ELSE IF StartsWith(path, BetaMount) THEN <<"b", "e", "t", "a">>
  ELSE IF path \in {DocsPath, ScalarPath} THEN <<"d", "o", "c", "s">>
  ELSE << >>

Anonymous == <<"a", "n", "o", "n", "y", "m", "o", "u", "s">>

\* s.split(',')[0]
FirstItem(s) ==
  LET commas == { i \in 1..Len(s) : s[i] = "," } IN
  IF commas = {} THEN s
  ELSE SubSeq(s, 1, (CHOOSE i \in commas : \A j \in commas : i <= j) - 1)

\* s.trim(), the white space being blanks
Trim(s) ==
  LET inked == { i \in 1..Len(s) : s[i] # " " } IN
  IF inked = {} THEN << >>
  ELSE SubSeq(s, CHOOSE i \in inked : \A j \in inked : i <= j,
                 CHOOSE i \in inked : \A j \in inked : i >= j)

\* getClientIdentifier: CF-Connecting-IP || X-Forwarded-For?.split(',')[0].trim()
\* || X-Real-IP || 'anonymous'
getClientIdentifier(from) ==
  IF from.cf.present /\ from.cf.value # << >> THEN from.cf.value
  ELSE IF from.xff.present /\ Trim(FirstItem(from.xff.value)) # << >>
  THEN Trim(FirstItem(from.xff.value))
  ELSE Anonymous

\* key = `${keyPrefix}:${clientIp}:${c.req.path}`
RateLimitKey(keyPrefix, clientIp, path) ==
  keyPrefix \o <<":">> \o clientIp \o <<":">> \o path

\* what kv.get(key, 'json') gives at time `at`
StoredUnder(key, at) ==
  IF key \in DOMAIN store /\ store[key].data.present /\ at < store[key].expiresAt
  THEN store[key].data
  ELSE Null

\* the stage of the chain the request moves to, noted on its trail
Stage(r, stage) == [r EXCEPT !.pc = stage, !.trail = Append(@, stage)]

\* the chain ends with an error thrown by a middleware
Ended(r, error) == [r EXCEPT !.pc = "done", !.out = error]

\* the catch block of the limiter on an error of the store
ChainFailPolicy(r) ==
  IF cfg.NODE_ENV = "production" THEN Ended(r, InternalError) ELSE Stage(r, "auth")

\* the request arrives at the limiter mounted on its path, if any, and runs it
\* up to `await kv.get`
Enter(i, from, path, authorization) ==
  /\ rq[i].pc = "idle"
  /\ \A j \in ChainReqs : j < i => rq[j].pc # "idle"
  /\ LET keyPrefix == LimiterFor(path)
         r == [rq[i] EXCEPT !.from = from, !.path = path,
                            !.authorization = authorization, !.keyPrefix = keyPrefix] IN
     rq' = [rq EXCEPT ![i] =
              IF keyPrefix = << >> THEN Stage(r, "auth")
              ELSE IF ~cfg.kv /\ cfg.NODE_ENV = "production"
              THEN Ended(Stage(r, "limiter"), InternalError)
              ELSE IF ~cfg.kv THEN Stage(Stage(r, "limiter"), "auth")
              ELSE [Stage(r, "limiter") EXCEPT
                      !.pc = "get", !.now = clock,
                      !.key = RateLimitKey(keyPrefix, getClientIdentifier(from), path)]]
  /\ UNCHANGED <<store, proxyVars, limiterVars, handlerVars, utilVars>>

\* `await kv.get(key, 'json')` resolves
StoreGet(i) ==
  /\ rq[i].pc = "get"
  /\ LET r == rq[i]
         data == StoredUnder(r.key, clock) IN
     rq' = [rq EXCEPT ![i] =
       IF ~data.present \/ Expired(data, r.now)
       THEN [r EXCEPT !.pc = "put", !.data = data, !.newData = NewWindow(r.now),
                      !.ttl = windowSeconds]
       ELSE IF LimitReached(data, cfg.requests)
       THEN Ended([r EXCEPT !.data = data],
                  RateLimitExceeded(RemainingSeconds(data, r.now)))
       ELSE LET inc == Incremented(data)
                ttl == RemainingSeconds(data, r.now) IN
            IF ttl > 0
            THEN [r EXCEPT !.pc = "put", !.data = data, !.newData = inc, !.ttl = ttl]
            ELSE Stage([r EXCEPT !.data = data, !.newData = inc, !.ttl = ttl], "auth")]
  /\ UNCHANGED <<store, proxyVars, limiterVars, handlerVars, utilVars>>

\* `await kv.get` rejects
StoreGetThrow(i) ==
  /\ rq[i].pc = "get"
  /\ rq' = [rq EXCEPT ![i] = ChainFailPolicy(@)]
  /\ UNCHANGED <<store, proxyVars, limiterVars, handlerVars, utilVars>>

\* `await kv.put(key, ...)` resolves: the record under the key is replaced and
\* `await next()` runs the authentication
StorePut(i) ==
  /\ rq[i].pc = "put"
  /\ LET r == rq[i]
         record == [data |-> r.newData, expiresAt |-> clock + r.ttl * 1000] IN
     /\ store' = [k \in DOMAIN store \cup {r.key} |->
                    IF k = r.key THEN record ELSE store[k]]
     /\ rq' = [rq EXCEPT ![i] = Stage([r EXCEPT !.puts = @ + 1], "auth")]
  /\ UNCHANGED <<proxyVars, limiterVars, handlerVars, utilVars>>

\* `await kv.put` rejects
StorePutThrow(i) ==
  /\ rq[i].pc = "put"
  /\ rq' = [rq EXCEPT ![i] = ChainFailPolicy(@)]
  /\ UNCHANGED <<store, proxyVars, limiterVars, handlerVars, utilVars>>

\* app.use('*', authMiddleware): the handler of the route runs next, or the
\* request ends with the 401 error
Authenticate(i) ==
  /\ rq[i].pc = "auth"
  /\ LET r == rq[i]
         result == authMiddleware(r.path, r.authorization, WORKER_API_KEY) IN
     rq' = [rq EXCEPT ![i] = IF result = Allowed THEN Stage(r, "handler")
                             ELSE Ended(r, result)]
  /\ UNCHANGED <<store, proxyVars, limiterVars, handlerVars, utilVars>>

\* the handler of the route (or notFound) answers; a proxy route calls upstream
RouteHandler(i) ==
  /\ rq[i].pc = "handler"
  /\ rq' = [rq EXCEPT ![i] = [@ EXCEPT !.pc = "done", !.out = [kind |-> "response"]]]
  /\ UNCHANGED <<store, proxyVars, limiterVars, handlerVars, utilVars>>

\* time passes while requests are in the chain
ChainTimes == {0, 1000, windowMs}

(***************************************************************************)
(* SpecChain: requests of one client for public, limited and other paths,  *)
(* one at a time, with every form of Authorization header, any limit, in   *)
(* each mode, the store failing or not configured.                         *)
(***************************************************************************)
InitChain ==
  /\ ProxyIdle
  /\ HandlerIdle
  /\ UtilIdle
  /\ ChainIdle
  /\ clock = 0
  /\ kv = NoRecord
  /\ rl = [i \in Reqs |-> IdleReq]
  /\ kvPuts = <<>>
  /\ \E requests \in 1..MaxLimit, mode \in {"development", "production"},
        bound \in BOOLEAN :
       cfg = [requests |-> requests, NODE_ENV |-> mode, kv |-> bound]

NextChain ==
  \/ \E i \in ChainReqs, path \in ChainPaths, authorization \in AuthHeaders :
       (\A j \in ChainReqs : rq[j].pc \in {"idle", "done"})
         /\ Enter(i, NoClientHeaders, path, authorization)
  \/ \E i \in ChainReqs : StoreGet(i)
  \/ \E i \in ChainReqs : StoreGetThrow(i)
  \/ \E i \in ChainReqs : StorePut(i)
  \/ \E i \in ChainReqs : StorePutThrow(i)
  \/ \E i \in ChainReqs : Authenticate(i)
  \/ \E i \in ChainReqs : RouteHandler(i)
  \/ \E t \in ChainTimes : Tick(t)

SpecChain == InitChain /\ [][NextChain]_vars

(***************************************************************************)
(* SpecKeys: requests of several clients for several limited paths, one at *)
(* a time, the client identifier being whatever the header holds.          *)
(***************************************************************************)
\* the client headers tried: none; CF-Connecting-IP 'c'; CF-Connecting-IP 'd'
\* with X-Forwarded-For 'c'; X-Forwarded-For ' c:/v1/,d' alone
KeyClients ==
  {NoClientHeaders,
   ClientHeaders(Header(<<"c">>), NoHeader),
   ClientHeaders(Header(<<"d">>), Header(<<"c">>)),
   ClientHeaders(NoHeader, Header(<<" ", "c", ":">> \o V1Mount \o <<",", "d">>))}

\* the paths requested: under both mounts, and one that holds a colon
KeyPaths ==
  {V1Mount, V1Mount \o <<"a">>, BetaMount \o <<"a">>, V1Mount \o <<":">> \o V1Mount}

NextKeys ==
  \/ \E i \in ChainReqs, from \in KeyClients, path \in KeyPaths :
       (\A j \in ChainReqs : rq[j].pc \in {"idle", "done"})
         /\ Enter(i, from, path, NoHeader)
  \/ \E i \in ChainReqs : StoreGet(i)
  \/ \E i \in ChainReqs : StoreGetThrow(i)
  \/ \E i \in ChainReqs : StorePut(i)
  \/ \E i \in ChainReqs : StorePutThrow(i)
  \/ \E i \in ChainReqs : Authenticate(i)
  \/ \E t \in ChainTimes : Tick(t)

SpecKeys == InitChain /\ [][NextKeys]_vars

(***************************************************************************)
(* The error handler and the not-found handler, createErrorResponse and    *)
(* serializeError. A JSON value carries its type as the name of its one    *)
(* field; an object is a function from property names to values.           *)
(***************************************************************************)
Undefined == [undefined |-> TRUE]
Str(s) == [str |-> s]
Num(n) == [num |-> n]
Arr(a) == [arr |-> a]
Obj(o) == [obj |-> o]

\* path.join('.')
Join(path) == [joined |-> path]

\* new Date().toISOString()
ISOString(ms) == [iso |-> ms]

\* the object without the properties whose value is undefined: what
\* JSON.stringify writes, and what a conditional spread builds
Defined(object) ==
  [k \in {x \in DOMAIN object : object[x] # Undefined} |-> object[k]]

\* { ...object, [key]: value }
With(object, key, value) ==
  [k \in DOMAIN object \cup {key} |-> IF k = key THEN value ELSE object[k]]

\* JSON.stringify(response): an object of the handlers as the client reads it
StringifyObject(object) == Defined(object)

\* value && { ... } : undefined and '' are falsy
Truthy(value) == value # Undefined /\ value # Str("")

\* an HTTPException as the handler receives it
HttpError(status, message, cause) ==
  [kind |-> "HTTPException", status |-> status, message |-> message, name |-> "Error",
   stack |-> Str("stack"), code |-> Undefined, cause |-> cause, errors |-> <<>>]

\* a z.ZodError with its issues
ZodError(issues) ==
  [kind |-> "ZodError", status |-> 0, message |-> "issues", name |-> "ZodError",
   stack |-> Str("stack"), code |-> Undefined, cause |-> Undefined, errors |-> issues]

\* any other Error
GenericError(message, name, stack, code) ==
  [kind |-> "Error", status |-> 0, message |-> message, name |-> name,
   stack |-> stack, code |-> code, cause |-> Undefined, errors |-> <<>>]

Issue(path, code, expected, received) ==
  [path |-> path, message |-> "Required", code |-> code, expected |-> expected,
   received |-> received]

Issues ==
  { <<>>,
    <<Issue(<<"chain_ids">>, "invalid_type", Str("string"), Str("undefined"))>>,
    <<Issue(<<"balances", "amount">>, "invalid_type", Str("string"), Str("number")),
      Issue(<<"address">>, "custom", Undefined, Undefined)>> }

\* the errors the handler is called with: those the proxy and the rate limiter
\* throw, validation errors, and other exceptions
HandlerErrors ==
  { HttpError(429, "Too many subrequests in this request",
              Obj([limit |-> Num(MAX_SUBREQUESTS), current |-> Num(MAX_SUBREQUESTS)])),
    HttpError(429, "Rate limit exceeded", Obj([retryAfter |-> Num(1)])),
    HttpError(413, "Response too large", Undefined),
    HttpError(401, "Unauthorized", Undefined),
    HttpError(500, "Failed to proxy request", Undefined),
    HttpError(500, "Failed to proxy request", Obj([message |-> Str("fetch failed")])),
    HttpError(500, "Internal server error", Undefined),
    HttpError(502, "Invalid JSON response from upstream API", Undefined),
    HttpError(502, "Invalid response schema from upstream API", Undefined) }
  \cup { HttpError(502, "Invalid response schema from upstream API", Arr(issues)) :
           issues \in Issues \ {<<>>} }
  \cup { ZodError(issues) : issues \in Issues }
  \cup { GenericError("fetch failed", "TypeError", stack, code) :
           stack \in {Undefined, Str("stack")}, code \in {Undefined, Str("ECONNRESET")} }

\* c.get('validatedEnv')?.NODE_ENV: a mode, or undefined before validation
EnvValues == Modes \cup {"undefined"}

\* c.get('requestId')
RequestIds == {Undefined, Str("req-1")}

\* the Context of the failed request
Context(env, requestId, request) ==
  [validatedEnv |-> env, requestId |-> requestId, method |-> request.method,
   path |-> request.path]

serializeError(error, context) ==
  IF error.kind = "ZodError"
  THEN [message |-> Str("Validation failed"), name |-> Str("ZodError"),
        zodErrors |-> Arr(error.errors), stack |-> error.stack, code |-> Undefined,
        cause |-> Undefined, status |-> Undefined, requestId |-> context.requestId]
  ELSE IF error.kind = "HTTPException"
  THEN [message |-> Str(error.message), name |-> Str("HTTPException"),
        zodErrors |-> Undefined, stack |-> error.stack, code |-> Undefined,
        cause |-> error.cause, status |-> Num(error.status),
        requestId |-> context.requestId]
  ELSE [message |-> Str(error.message), name |-> Str(error.name),
        zodErrors |-> Undefined, stack |-> error.stack, code |-> error.code,
        cause |-> error.cause, status |-> Undefined, requestId |-> context.requestId]

\* the details of a development response
ErrorDetails(serialized) ==
  Obj(Defined([name |-> serialized.name,
               validationErrors |-> IF Truthy(serialized.zodErrors)
                                    THEN serialized.zodErrors ELSE Undefined,
               stack |-> IF Truthy(serialized.stack) THEN serialized.stack ELSE Undefined,
               code |-> IF Truthy(serialized.code) THEN serialized.code ELSE Undefined]))

\* a variant that gives the details in every mode
createErrorResponseVerbose(error, context, isDevelopment) ==
  LET serialized == serializeError(error, context) IN
  [error |-> serialized.message,
   details |-> ErrorDetails(serialized),
   requestId |-> context.requestId]

createErrorResponse(error, context, isDevelopment) ==
  LET serialized == serializeError(error, context) IN
  [error |-> serialized.message,
   details |-> IF isDevelopment THEN ErrorDetails(serialized) ELSE Undefined,
   requestId |-> context.requestId]

\* err.errors.map(e => ({ path, message, code, expected?, received? }))
formattedErrors(err, isDevelopment) ==
  [n \in 1..Len(err.errors) |->
     LET e == err.errors[n] IN
     Obj(Defined([path |-> Join(e.path), message |-> Str(e.message), code |-> Str(e.code),
                  expected |-> IF isDevelopment THEN e.expected ELSE Undefined,
                  received |-> IF isDevelopment THEN e.received ELSE Undefined]))]

\* a 500 itself left cacheable
CacheControlAbove(status) == IF status > 500 THEN "no-store" ELSE "no-cache"

\* status >= 500 ? 'no-store' : 'no-cache'
CacheControlOf(status) == IF status >= 500 THEN "no-store" ELSE "no-cache"

\* the Response of errorHandler(err, c)
errorHandler(err, c) ==
  LET isDevelopment == c.validatedEnv = "development"
      requestId == c.requestId
      errorContext == [path |-> c.path, method |-> c.method, requestId |-> requestId]
      timestamp == ISOString(clock)
      status == IF err.kind = "HTTPException" THEN err.status
                ELSE IF err.kind = "ZodError" THEN 400
                ELSE 500
      response ==
        IF err.kind = "ZodError"
        THEN LET errorResponse ==
                   createErrorResponse(GenericError("Validation error", "Error",
                                                    Str("stack"), Undefined),
                                       errorContext, isDevelopment)
                 formatted == formattedErrors(err, isDevelopment)
                 details == IF isDevelopment
                            THEN Obj([errors |-> Arr(formatted),
                                      errorCount |-> Num(Len(formatted))])
                            ELSE Str("Invalid request format")
             IN With(With(errorResponse, "details", details), "timestamp", timestamp)
        ELSE With(createErrorResponse(err, errorContext, isDevelopment),
                  "timestamp", timestamp)
      headers ==
        [contentType |-> "application/json", contentTypeOptions |-> "nosniff",
         frameOptions |-> "DENY",
         requestId |-> IF requestId = Undefined THEN "" ELSE requestId.str,
         cacheControl |-> CacheControlOf(status)]
  IN NewResponse(StringifyObject(response), status, headers)

\* the Response of notFoundHandler(c)
notFoundHandler(c) ==
  LET isDevelopment == c.validatedEnv = "development"
      requestId == c.requestId
      errorContext == [path |-> c.path, method |-> c.method, requestId |-> requestId]
      errorResponse ==
        createErrorResponse(GenericError(<<"Route", c.method, c.path, "not found">>,
                                         "Error", Str("stack"), Undefined),
                            errorContext, isDevelopment)
      response == With(With(errorResponse, "error", Str("Not Found")),
                       "timestamp", ISOString(clock))
      headers ==
        [contentType |-> "application/json", contentTypeOptions |-> "nosniff",
         requestId |-> IF requestId = Undefined THEN "" ELSE requestId.str]
  IN NewResponse(StringifyObject(response), 404, headers)

\* app.onError((err, c) => errorHandler(err, c)): the request that failed is
\* answered, once
OnError(err, c) ==
  /\ eh = NoCall
  /\ eh' = [handler |-> "errorHandler", err |-> err, c |-> c,
            response |-> errorHandler(err, c)]
  /\ UNCHANGED <<proxyVars, limiterVars, utilVars, chainVars>>

\* app.notFound((c) => notFoundHandler(c)): the request that matched no route
\* is answered, once
NotFound(c) ==
  /\ eh = NoCall
  /\ eh' = [handler |-> "notFoundHandler", err |-> Undefined, c |-> c,
            response |-> notFoundHandler(c)]
  /\ UNCHANGED <<proxyVars, limiterVars, utilVars, chainVars>>

(***************************************************************************)
(* SpecError: the handlers called with any error, in any mode, with or     *)
(* without a request id, at any time.                                      *)
(***************************************************************************)
InitError == ProxyIdle /\ MiddlewareIdle

NextError ==
  \/ \E err \in HandlerErrors, env \in EnvValues, requestId \in RequestIds,
        request \in Requests :
       OnError(err, Context(env, requestId, request))
  \/ \E env \in EnvValues, requestId \in RequestIds, request \in Requests :
       NotFound(Context(env, requestId, request))
  \/ \E t \in TimePoints : Tick(t)

SpecError == InitError /\ [][NextError]_vars

(***************************************************************************)
(* calculateDelay: exponential backoff with jitter. Math.random() is k /   *)
(* RandomSteps for k in 0..RandomSteps-1; the arithmetic is exact, on      *)
(* fractions.                                                              *)
(***************************************************************************)
RECURSIVE Pow(_, _)
\* Math.pow(base, exponent), exponent a natural number
Pow(base, exponent) == IF exponent = 0 THEN 1 ELSE base * Pow(base, exponent - 1)

\* Math.round(numerator / denominator): the nearest integer, halves upward
Round(numerator, denominator) == (2 * numerator + denominator) \div (2 * denominator)

\* a variant that does not clamp the exponential delay
Unclamped(exponentialDelay, maxDelay) == exponentialDelay

\* Math.min(exponentialDelay, maxDelay)
Clamped(exponentialDelay, maxDelay) ==
  IF exponentialDelay < maxDelay THEN exponentialDelay ELSE maxDelay

calculateDelay(attempt, initialDelay, maxDelay, backoffMultiplier, random) ==
  LET exponentialDelay == initialDelay * Pow(backoffMultiplier, attempt - 1)
      clampedDelay == Clamped(exponentialDelay, maxDelay)
      \* jitter = clampedDelay * 0.25 * (random * 2 - 1), over 4 * RandomSteps
      jitter == clampedDelay * (2 * random - RandomSteps)
  IN Round(clampedDelay * 4 * RandomSteps + jitter, 4 * RandomSteps)

\* the arguments calculateDelay is called with
Attempts == 1..MaxAttempt
InitialDelays == {0, 1, 3, 250, INITIAL_DELAY}
MaxDelays == {0, 2, 500, MAX_DELAY}
Multipliers == 1..MaxMultiplier
Randoms == 0..(RandomSteps - 1)

\* one call of calculateDelay
CalculateDelay(attempt, initialDelay, maxDelay, backoffMultiplier, random) ==
  /\ calc = NoCalc
  /\ calc' = [f |-> "calculateDelay", attempt |-> attempt, initialDelay |-> initialDelay,
              maxDelay |-> maxDelay, backoffMultiplier |-> backoffMultiplier,
              random |-> random,
              delay |-> calculateDelay(attempt, initialDelay, maxDelay,
                                       backoffMultiplier, random)]
  /\ UNCHANGED <<proxyVars, limiterVars, handlerVars, chainVars>>

(***************************************************************************)
(* SpecDelay: calculateDelay called with any arguments.                    *)
(***************************************************************************)
InitDelay == ProxyIdle /\ MiddlewareIdle

NextDelay ==
  \E attempt \in Attempts, initialDelay \in InitialDelays, maxDelay \in MaxDelays,
     backoffMultiplier \in Multipliers, random \in Randoms :
    CalculateDelay(attempt, initialDelay, maxDelay, backoffMultiplier, random)

SpecDelay == InitDelay /\ [][NextDelay]_vars

(***************************************************************************)
(* SpecRetry: the two retry predicates asked about a response of any valid *)
(* HTTP status (RFC 9110: 100..599).                                       *)
(***************************************************************************)
StatusCodes == 100..599

\* defaultShouldRetry(response) and the shouldRetry option of
\* executeProxyRequest, called on responses of the same status
DefaultShouldRetry(status) ==
  /\ calc = NoCalc
  /\ calc' = [f |-> "shouldRetry", status |-> status,
              default |-> defaultShouldRetry(status),
              proxy |-> proxyShouldRetry(status)]
  /\ UNCHANGED <<proxyVars, limiterVars, handlerVars, chainVars>>

InitRetry == ProxyIdle /\ MiddlewareIdle

NextRetry == \E status \in StatusCodes : DefaultShouldRetry(status)

SpecRetry == InitRetry /\ [][NextRetry]_vars

(***************************************************************************)
(* Properties.                                                             *)
(***************************************************************************)
IsProxy(p) == entry[p] = "proxyRequest" /\ pc[p] # "idle"

\* the dedup keys: those of the GET and HEAD requests
DedupKeys == { RequestKey(r) : r \in { x \in Requests : shouldDeduplicate(x.method) } }

\* the calls for key k whose upstream call sequence is in progress
InProgress(k) ==
  { p \in Calls : IsProxy(p) /\ promise[p] = Pending /\ RequestKey(args[p]) = k }

\* C1 (as stated): a GET or HEAD call issued while an earlier call for the same
\* method and URL has not completed issues no upstream call of its own, and
\* both calls end with responses of the same status and the same body.
C1_Original ==
  \A q \in Calls : \A p \in pendingAtCall[q] :
    /\ fetchCalls[q] = 0
    /\ (pc[p] = "done" /\ pc[q] = "done") =>
         /\ ret[p].kind = "response"
         /\ ret[q].kind = "response"
         /\ ret[q].status = ret[p].status
         /\ ret[q].body = ret[p].body

\* C2 (as stated): in every reachable state at most one upstream call sequence
\* is in progress for each dedup key.
C2_Original == \A k \in DedupKeys : Cardinality(InProgress(k)) <= 1

BudgetError == HTTPException(429, "Too many subrequests in this request")

\* C3: a proxyRequest call made when the subrequest counter of its context has
\* reached MAX_SUBREQUESTS ends at once with the 429 budget error, and leaves
\* the counter, the registry, its timers and the upstream untouched.
C3_BudgetRejects ==
  [][\A p \in Calls :
       (/\ entry[p] = "proxyRequest"
        /\ pc[p] = "idle"
        /\ pc'[p] # "idle"
        /\ subrequestCount[ctxOf'[p]] >= MAX_SUBREQUESTS)
       => /\ pc'[p] = "done"
          /\ ret'[p] = BudgetError
          /\ fetchCalls'[p] = 0
          /\ promise'[p] = NoRet
          /\ UNCHANGED <<subrequestCount, inFlightRequests, timers, microtasks>>]_vars

C3_Witness ==
  /\ subrequestCount[1] = MAX_SUBREQUESTS
  /\ pc[1] = "done"
  /\ ret[1] = BudgetError
  /\ fetchCalls[1] = 0

IsFetch(p) == entry[p] = "fetchWithRetry"

Fetched(response) == [kind |-> "fetched", response |-> response]

Last(seq) == seq[Len(seq)]

\* every fetch() call of p so far gave a response its retry predicate accepts
AllRetryable(p) ==
  \A i \in DOMAIN fetchLog[p] :
    /\ fetchLog[p][i].kind = "response"
    /\ shouldRetry(fw[p].shouldRetry, fetchLog[p][i].status)

\* C4: while every attempt gives a response the retry predicate accepts,
\* fetchWithRetry goes on until it has issued exactly maxRetries calls, and
\* then returns the response of the last attempt instead of raising.
C4_ExhaustedRetriesReturnLast ==
  \A p \in Calls :
    (IsFetch(p) /\ AllRetryable(p)) =>
      /\ fetchCalls[p] <= fw[p].maxRetries
      /\ pc[p] = "done" <=> Len(fetchLog[p]) = fw[p].maxRetries
      /\ pc[p] = "done" =>
           /\ fetchCalls[p] = fw[p].maxRetries
           /\ sleeps[p] = fw[p].maxRetries - 1
           /\ ret[p] = Fetched(Last(fetchLog[p]))

C4_Witness ==
  /\ IsFetch(1)
  /\ fw[1].maxRetries = 3
  /\ fw[1].shouldRetry = "default"
  /\ fetchLog[1] = <<Resp(500, TRUE), Resp(500, TRUE), Resp(500, TRUE)>>
  /\ pc[1] = "done"
  /\ ret[1] = Fetched(Resp(500, TRUE))

\* C5 (as stated): whenever the last permitted attempt throws, fetchWithRetry
\* raises that last network error and returns no response.
C5_Original ==
  \A p \in Calls :
    (IsFetch(p) /\ pc[p] = "done" /\ Last(fetchLog[p]) = Thrown) =>
      ret[p] = [kind |-> "thrown", attempt |-> fw[p].maxRetries]

\* C6 (as stated): with a retry predicate that is always false fetchWithRetry
\* never starts a backoff sleep, and returns the first response fetch gives.
C6_Original ==
  \A p \in Calls :
    (IsFetch(p) /\ fw[p].shouldRetry = "never") =>
      /\ sleeps[p] = 0
      /\ \A i \in DOMAIN fetchLog[p] :
           fetchLog[p][i].kind = "response" =>
             /\ i = Len(fetchLog[p])
             /\ pc[p] = "done"
             /\ ret[p] = Fetched(fetchLog[p][i])

\* the fetch() calls of p that were rejected
Throws(p) == { i \in DOMAIN fetchLog[p] : fetchLog[p][i] = Thrown }

\* C6 (amended): with a retry predicate that is always false fetchWithRetry
\* never sleeps after a response: it sleeps only after an attempt that threw
\* while attempts remain, once per such attempt, and returns the first
\* response fetch gives, without a further call.
C6_NoSleepAfterResponse ==
  \A p \in Calls :
    (IsFetch(p) /\ fw[p].shouldRetry = "never") =>
      /\ sleeps[p] = Cardinality({ i \in Throws(p) : i < fw[p].maxRetries })
      /\ \A i \in DOMAIN fetchLog[p] :
           fetchLog[p][i].kind = "response" =>
             /\ i = Len(fetchLog[p])
             /\ fetchCalls[p] = i
             /\ pc[p] = "done"
             /\ ret[p] = Fetched(fetchLog[p][i])

C6_Witness ==
  /\ IsFetch(1)
  /\ fw[1].shouldRetry = "never"
  /\ fw[1].maxRetries = 3
  /\ fetchLog[1] = <<Thrown, Resp(500, TRUE)>>
  /\ sleeps[1] = 1
  /\ pc[1] = "done"
  /\ ret[1] = Fetched(Resp(500, TRUE))

\* the statuses the proxy retries: 429, and 5xx other than 501 and 505
Retryable(status) == status = 429 \/ (status \in 500..599 /\ status \notin {501, 505})

\* a further upstream call follows an attempt exactly when attempts remain and
\* the attempt threw or gave a retryable status; any other status ends the
\* call sequence where it first occurs
RetryRule(p) ==
  /\ fetchCalls[p] <= MAX_RETRIES
  /\ \A i \in DOMAIN fetchLog[p] :
       LET retried == fetchLog[p][i] = Thrown \/ Retryable(fetchLog[p][i].status)
           goesOn == i < Len(fetchLog[p]) \/ fetchCalls[p] > i \/ pc[p] = "sleep" IN
       /\ goesOn <=> (retried /\ i < MAX_RETRIES)
       /\ ~retried => (fetchCalls[p] = i /\ pc[p] \in {"read", "done"})
  /\ (sleeps[p] = 0 /\ fetchLog[p] # <<>>) => fetchCalls[p] = 1

AllInternalError == <<Resp(500, TRUE), Resp(500, TRUE), Resp(500, TRUE)>>

\* the body the upstream sent was read within the limit and is JSON
BodyIsJson(p) == ~rd[p].cancelled /\ JSONParse(rd[p].bodyText).ok

\* the call returned the upstream status and the upstream body (as JSON)
PassedThrough(p) ==
  /\ ret[p].kind = "response"
  /\ ret[p].status = rd[p].response.status
  /\ JSONParse(ret[p].body) = JSONParse(rd[p].bodyText)
  /\ ret[p].headers.contentType = "application/json"

C8_BoundedRead ==
  \A p \in Calls :
    entry[p] = "processResponse" =>
      /\ Sum(rd[p].chunks) <= MAX_RESPONSE_SIZE
      /\ (ret[p].kind = "error" /\ ret[p].status = 413) <=> rd[p].totalSize > MAX_RESPONSE_SIZE
      /\ rd[p].cancelled <=> rd[p].totalSize > MAX_RESPONSE_SIZE
      /\ rd[p].totalSize > MAX_RESPONSE_SIZE =>
           /\ pc[p] = "done"
           /\ Sum(rd[p].chunks) < rd[p].totalSize
           /\ ret[p].kind # "processed"
      /\ rd[p].totalSize <= MAX_RESPONSE_SIZE => Sum(rd[p].chunks) = rd[p].totalSize
      /\ ret[p].kind = "processed" => ret[p].totalSize = Sum(rd[p].chunks)

C8_Witness ==
  /\ entry[1] = "processResponse"
  /\ rd[1].chunks = <<MAX_RESPONSE_SIZE \div 2, MAX_RESPONSE_SIZE \div 2>>
  /\ rd[1].totalSize = MAX_RESPONSE_SIZE + 1
  /\ rd[1].cancelled
  /\ ret[1] = HTTPException(413, "Response too large")

\* the call processed a 2xx upstream response whose body is JSON
SuccessBody(p) ==
  /\ IsProxy(p)
  /\ pc[p] = "done"
  /\ rd[p].response.kind = "response"
  /\ Ok(rd[p].response.status)
  /\ BodyIsJson(p)

\* the outcome of validating the upstream body of p against the schema of its path
Validated(p) == SchemaParse(SchemaOf(args[p].path), JSONParse(rd[p].bodyText).data)

\* C9: when the upstream status is 2xx and the parsed body passes the schema,
\* the response has the upstream status, the validated data as its body,
\* Content-Type application/json, and a Cache-Control that is public and
\* long-lived for a supported-chains path and private, no-cache otherwise.
C9_SuccessResponse ==
  \A p \in Calls :
    (SuccessBody(p) /\ Validated(p).ok) =>
      /\ ret[p].kind = "response"
      /\ ret[p].status = rd[p].response.status
      /\ JSONParse(ret[p].body) = ParseOk(Validated(p).data)
      /\ ret[p].headers.contentType = "application/json"
      /\ ret[p].headers.cacheControl =
           IF args[p].path = ChainsPath
           THEN [directive |-> "public", maxAge |-> SUPPORTED_CHAINS_TTL,
                 sMaxage |-> SUPPORTED_CHAINS_STALE_TTL]
           ELSE [directive |-> "private, no-cache", maxAge |-> 0, sMaxage |-> 0]

C9_Witness ==
  /\ args[1] = [method |-> "GET", path |-> ChainsPath, query |-> ""]
  /\ fetchLog[1] = <<Resp(200, TRUE)>>
  /\ rd[1].bodyText = T_chains
  /\ pc[1] = "done"
  /\ ret[1].kind = "response"
  /\ ret[1].status = 200
  /\ ret[1].body = T_chains
  /\ ret[1].headers.cacheControl.directive = "public"

SchemaError == HTTPException(502, "Invalid response schema from upstream API")

\* C10: when the upstream status is 2xx and the parsed body does not match the
\* schema, the call fails with the 502 schema error and returns no response;
\* so every 2xx response a call returns, to the owner of the upstream call or
\* to a caller that awaited it, carries a body that passes the schema.
C10_SchemaMismatchFails ==
  \A p \in Calls :
    IsProxy(p) =>
      /\ (SuccessBody(p) /\ ~Validated(p).ok) =>
           (ret[p] = SchemaError /\ promise[p] = SchemaError)
      /\ (ret[p].kind = "response" /\ Ok(ret[p].status)) =>
           LET d == JSONParse(ret[p].body) IN
           /\ d.ok
           /\ SchemaParse(SchemaOf(args[p].path), d.data) = ParseOk(d.data)

C10_Witness ==
  /\ rd[1].bodyText = T_missing
  /\ Ok(rd[1].response.status)
  /\ ret[1] = SchemaError
  /\ awaiting[2] = 1
  /\ 1 \in pendingAtCall[2]
  /\ pc[2] = "done"
  /\ ret[2].kind = "response"
  /\ Ok(ret[2].status)

\* the response fetchWithRetry returned to executeProxyRequest
Final(p) == fw[p].lastResponse

\* the call processed an upstream response whose status is not 2xx
NonOkFinal(p) ==
  /\ IsProxy(p)
  /\ pc[p] = "done"
  /\ Final(p).kind = "response"
  /\ ~Ok(Final(p).status)

ProxyError == HTTPException(500, "Failed to proxy request")

\* C12 (as stated): every proxyRequest call ends with a Response or with an
\* HTTPException of status 413, 429, 500 or 502, and a call whose retries end
\* in a network failure ends with the 500 'Failed to proxy request'.
C12_Original ==
  \A p \in Calls :
    (IsProxy(p) /\ pc[p] = "done") =>
      /\ \/ ret[p].kind = "response"
         \/ ret[p].kind = "error" /\ ret[p].status \in {413, 429, 500, 502}
      /\ (fetchLog[p] # <<>> /\ Last(fetchLog[p]) = Thrown) => ret[p] = ProxyError

\* the request found no live window: no record, or one whose resetTime is past
Fresh(i) == ~rl[i].data.present \/ rl[i].data.resetTime < rl[i].now

\* the window a request was decided in, named by its resetTime
WindowOf(i) == IF Fresh(i) THEN rl[i].now + windowMs ELSE rl[i].data.resetTime

\* the requests allowed before request i in the window of request i
AllowedBefore(i) ==
  { j \in Reqs : j < i /\ rl[j].out = Allowed /\ WindowOf(j) = WindowOf(i) }

\* C13 (as stated): requests for one key processed one at a time: in each
\* window exactly the first `limit` requests are allowed and every further
\* request that finds the window live is denied; a request that comes after
\* resetTime is allowed and starts a new window with count 1.
C13_Original ==
  \A i \in Reqs :
    rl[i].pc = "done" =>
      IF Fresh(i)
      THEN /\ rl[i].out = Allowed
           /\ rl[i].newData = RateLimitData(1, rl[i].now + windowMs)
      ELSE /\ rl[i].out = Allowed <=> Cardinality(AllowedBefore(i)) < cfg.requests
           /\ rl[i].out # Allowed => rl[i].out.status = 429

\* the writes of request i to the store
PutsBy(i) == { k \in DOMAIN kvPuts : kvPuts[k].by = i }

\* request i went through the store without an error of the store
Served(i) == cfg.kv /\ rl[i].pc = "done" /\ ~rl[i].failed

\* C14: a request that finds no record, or a record whose resetTime is past,
\* writes {count: 1, resetTime: now + windowMs} with a TTL equal to the
\* window, is allowed, and reports remaining = limit - 1.
C14_NewWindowWritten ==
  \A i \in Reqs :
    (Served(i) /\ Fresh(i)) =>
      /\ Cardinality(PutsBy(i)) = 1
      /\ \A k \in PutsBy(i) :
           /\ kvPuts[k].value.present
           /\ kvPuts[k].value.count = 1
           /\ kvPuts[k].value.resetTime = rl[i].now + WindowNum * 1000
           /\ kvPuts[k].expirationTtl = WindowNum
      /\ rl[i].out = Allowed
      /\ rl[i].hdr.remaining = cfg.requests - 1
      /\ rl[i].hdr.limit = cfg.requests

\* an expired record was replaced by a new window while other requests race
C14_Witness ==
  \E i \in Reqs :
    /\ Served(i) /\ rl[i].data.present /\ Fresh(i)
    /\ PutsBy(i) # {}
    /\ rl[i].out = Allowed

\* request i read a live record whose count had reached the limit
Denied(i) ==
  /\ rl[i].pc = "done"
  /\ rl[i].data.present
  /\ ~Fresh(i)
  /\ rl[i].data.count >= cfg.requests

\* C15 (as stated): a denied request gets 429 with Retry-After =
\* ceil((resetTime - now) / 1000), which is at least 1; it writes nothing to
\* the store and the downstream handler does not run.
C15_Original ==
  \A i \in Reqs :
    Denied(i) =>
      /\ rl[i].out.kind = "error"
      /\ rl[i].out.status = 429
      /\ (rl[i].out.retryAfter - 1) * 1000 < rl[i].data.resetTime - rl[i].now
      /\ rl[i].out.retryAfter * 1000 >= rl[i].data.resetTime - rl[i].now
      /\ rl[i].hdr.retryAfter = rl[i].out.retryAfter
      /\ rl[i].out.retryAfter >= 1
      /\ PutsBy(i) = {}

\* request i read a live record whose count was below the limit, and met no
\* error of the store
Counted(i) ==
  /\ Served(i)
  /\ rl[i].data.present
  /\ ~Fresh(i)
  /\ rl[i].data.count < cfg.requests

\* C16 (as stated): a request that reads a live record with count < limit
\* writes the record with count + 1 and the same resetTime, with a TTL equal
\* to the remaining time of the window, is allowed, and reports remaining =
\* limit - (new count).
C16_Original ==
  \A i \in Reqs :
    Counted(i) =>
      /\ Cardinality(PutsBy(i)) = 1
      /\ \A k \in PutsBy(i) :
           /\ kvPuts[k].value.present
           /\ kvPuts[k].value.count = rl[i].data.count + 1
           /\ kvPuts[k].value.resetTime = rl[i].data.resetTime
           /\ (kvPuts[k].expirationTtl - 1) * 1000 < rl[i].data.resetTime - rl[i].now
           /\ kvPuts[k].expirationTtl * 1000 >= rl[i].data.resetTime - rl[i].now
      /\ rl[i].out = Allowed
      /\ rl[i].hdr.remaining = cfg.requests - (rl[i].data.count + 1)

\* C17: when a read or a write of the store fails, or the store is not
\* configured, the request is refused with a 500 internal error in production
\* (the downstream handler does not run) and allowed through in development;
\* a request denied for its count (429) stays denied in every mode.
C17_FailurePolicy ==
  \A i \in Reqs :
    /\ (rl[i].pc = "done" /\ rl[i].failed /\ cfg.NODE_ENV = "production") =>
         /\ rl[i].out.kind = "error"
         /\ rl[i].out.status = 500
         /\ rl[i].out.message = "Internal server error"
    /\ (rl[i].pc = "done" /\ rl[i].failed /\ cfg.NODE_ENV = "development") =>
         rl[i].out.kind = "next"
    /\ Denied(i) =>
         /\ rl[i].out.kind = "error"
         /\ rl[i].out.status = 429

\* in production a request was refused with 500 for a failed write of an
\* incremented record
C17_Witness ==
  /\ cfg.NODE_ENV = "production" /\ cfg.kv
  /\ \E i \in Reqs :
       /\ rl[i].pc = "done" /\ rl[i].failed /\ rl[i].newData.count = 2
       /\ rl[i].out.kind = "error" /\ rl[i].out.status = 500

\* in development a read of the store failed and the request went through
C17_FailOpenReached ==
  /\ cfg.NODE_ENV = "development" /\ cfg.kv
  /\ \E i \in Reqs :
       rl[i].pc = "done" /\ rl[i].failed /\ rl[i].out.kind = "next"

\* C18: in every reachable state, however the reads and writes of racing
\* requests for one key interleave, the count of the stored record is at
\* least 1 and at most the configured limit.
C18_StoredCountInRange ==
  /\ kv.data.present => (kv.data.count >= 1 /\ kv.data.count <= cfg.requests)
  /\ \A k \in DOMAIN kvPuts :
       kvPuts[k].value.count >= 1 /\ kvPuts[k].value.count <= cfg.requests

\* two racing requests both read the store before either wrote, and both
\* wrote a record whose count is the limit
C18_Witness ==
  /\ kv.data.present /\ kv.data.count = cfg.requests
  /\ \E i, j \in Reqs :
       /\ i # j
       /\ PutsBy(i) # {} /\ PutsBy(j) # {}
       /\ rl[i].data = rl[j].data
       /\ rl[i].newData.count = cfg.requests /\ rl[j].newData.count = cfg.requests

\* the requests allowed in the window that ends at w, each of them made
\* before w
AllowedIn(w) ==
  { i \in Reqs : /\ Served(i)
                 /\ rl[i].out = Allowed
                 /\ WindowOf(i) = w
                 /\ rl[i].now < w }

\* C19: the read-modify-write is not atomic. Every record written is computed
\* from the record the request read, whatever the store holds when the write
\* lands, and the request is allowed on what it read; so racing requests
\* that read the same record are all allowed and write the same count.
C19_DecidesOnWhatItRead ==
  /\ \A k \in DOMAIN kvPuts :
       LET i == kvPuts[k].by IN
       kvPuts[k].value.count = (IF Fresh(i) THEN 1 ELSE rl[i].data.count + 1)
  /\ \A i, j \in Reqs :
       (Served(i) /\ Served(j) /\ rl[i].data = rl[j].data /\ rl[i].now = rl[j].now) =>
         (rl[i].out = rl[j].out /\ rl[i].newData = rl[j].newData)

\* an interleaving in which more requests than the limit are allowed in one
\* window, before the window ends: both requests read the store before
\* either wrote
C19_Witness ==
  \E w \in TimePoints :
    /\ Cardinality(AllowedIn(w)) > cfg.requests
    /\ \A i \in AllowedIn(w) : PutsBy(i) # {}
    /\ \A i, j \in AllowedIn(w) : rl[i].data = rl[j].data
    /\ kv.data.present /\ kv.data.count <= cfg.requests
    /\ clock < w

\* a handler has answered
Answered == eh.handler # "none"

\* the properties of the JSON body of the error response
BodyKeys == DOMAIN eh.response.body

\* the development mode, as the handlers see it
InDevelopment == eh.c.validatedEnv = "development"

\* the error handled is a validation error
IsValidationError == eh.handler = "errorHandler" /\ eh.err.kind = "ZodError"

HasCause ==
  /\ eh.handler = "errorHandler"
  /\ eh.err.kind = "HTTPException"
  /\ eh.err.message \in {"Too many subrequests in this request",
                         "Invalid response schema from upstream API"}
  /\ eh.err.cause # Undefined

\* the properties of `details` when it is an object, none otherwise
DetailsObject ==
  IF "details" \in BodyKeys /\ DOMAIN eh.response.body["details"] = {"obj"}
  THEN eh.response.body["details"].obj
  ELSE [k \in {} |-> Undefined]

\* the body of the response carries the cause of the error: as a property of
\* the body, or as a property of `details`
CarriesCause ==
  \/ \E k \in BodyKeys : eh.response.body[k] = eh.err.cause
  \/ \E k \in DOMAIN DetailsObject : DetailsObject[k] = eh.err.cause

\* C21 (as stated): the cause attached to a structured error (limit and
\* current count of a budget rejection, validation issues of a schema
\* violation) is in the error response in development, and only then.
C21_Original ==
  HasCause => (CarriesCause <=> InDevelopment)

IsDelay == calc.f = "calculateDelay"

\* clamped = min(initialDelay * multiplier^(attempt-1), maxDelay)
ClampedOf(call) ==
  LET exponential == call.initialDelay * Pow(call.backoffMultiplier, call.attempt - 1)
  IN IF exponential < call.maxDelay THEN exponential ELSE call.maxDelay

Removed(k) == inFlightRequests[k] # 0 /\ inFlightRequests'[k] = 0

\* C23 (as stated): a registry entry is removed only by the timer scheduled at
\* its own registration, never by the timer of an earlier entry of the same
\* key, and an entry whose timer has fired is no longer in the registry.
C23_Original ==
  [][/\ \A k \in DedupKeys :
          Removed(k) => (timers # <<>> /\ Head(timers) = inFlightRequests[k])
     /\ \A k \in DedupKeys :
          inFlightRequests'[k] # 0 => inFlightRequests'[k] \in Range(timers')]_vars

\* the step stores a promise under key k
Registered(k) == inFlightRequests'[k] # 0 /\ inFlightRequests'[k] # inFlightRequests[k]

\* C24 (as stated): a caller stores its promise under a key only when the
\* registry holds no entry for that key at that moment; an existing entry is
\* never overwritten.
C24_Original ==
  [][\A k \in DedupKeys : Registered(k) => inFlightRequests[k] = 0]_vars

\* the call of w awaited an entry whose promise rejected
AwaitedFailure(w) ==
  /\ awaiting[w] # 0
  /\ promise[awaiting[w]].kind = "error"
  /\ pc[w] # "await"

\* C25: a waiter whose awaited promise rejected runs one upstream call sequence
\* of its own (its fetches are the attempts 1, 2, ... of one fetchWithRetry
\* call, at most MAX_RETRIES), and ends with the outcome of that sequence,
\* a failure included; it never awaits again.
C25_WaiterFallsBackOnce ==
  \A w \in Calls : AwaitedFailure(w) =>
    /\ promise[w] # NoRet
    /\ fw[w] # NoFrame
    /\ fetchCalls[w] = fw[w].attempt
    /\ fetchCalls[w] \in 1..MAX_RETRIES
    /\ pc[w] \in {"fetch", "sleep", "read", "done"}
    /\ pc[w] = "done" => (Settled(w) /\ ret[w] = promise[w])
    /\ pc[w] # "done" => (promise[w] = Pending /\ ret[w] = NoRet)

\* a waiter whose awaited call failed with a 502 made all its own attempts and
\* ended with the 500 of its own failed sequence
C25_Witness ==
  \E w \in Calls :
    /\ AwaitedFailure(w)
    /\ promise[awaiting[w]].status = 502
    /\ pc[w] = "done"
    /\ fetchCalls[w] = MAX_RETRIES
    /\ ret[w] = HTTPException(500, "Failed to proxy request")

\* the call of p carries a method other than GET and HEAD
OtherMethod(p) == IsProxy(p) /\ args[p].method \notin {"", "GET", "HEAD"}

\* C26: a call whose method is neither GET nor HEAD never awaits a registry
\* entry, leaves the registry and its timers as they are in every step it
\* takes, and, unless refused by the budget check, ends only after a fetch of
\* its own.
C26_OnlyGetHeadDeduplicated ==
  [][\A p \in Calls :
       (OtherMethod(p)' /\ pc'[p] # pc[p]) =>
         /\ UNCHANGED <<inFlightRequests, timers>>
         /\ pc'[p] # "await"
         /\ awaiting'[p] = 0
         /\ \A k \in Keys : inFlightRequests'[k] # p
         /\ (pc'[p] = "done" /\ ret'[p] # BudgetError) => fetchCalls'[p] >= 1]_vars

\* a POST has ended after its own fetch while the entry of a GET for the same
\* URL, still pending, is in the registry
C26_Witness ==
  \E p, q \in Calls :
    /\ OtherMethod(p)
    /\ pc[p] = "done"
    /\ fetchCalls[p] >= 1
    /\ args[q].method = "GET"
    /\ UrlOf(args[q]) = UrlOf(args[p])
    /\ promise[q] = Pending
    /\ inFlightRequests[RequestKey(args[q])] = q

\* the call of w, which awaited a registry entry, has gone past its await
PastAwait(w) == awaiting[w] # 0 /\ pc[w] # "await"

\* the call of w ended with the result shared by the entry it awaited
SharedResult(w) == PastAwait(w) /\ promise[w] = NoRet

\* the upstream call sequence of q is complete: every fetch it issued was
\* answered, they are the attempts of one fetchWithRetry call, and a
\* response it produced is the validated, shaped body it read to the end
SequenceComplete(q) ==
  /\ pc[q] = "done"
  /\ promise[q].kind \in {"response", "error"}
  /\ fetchCalls[q] >= 1
  /\ Len(fetchLog[q]) = fetchCalls[q]
  /\ fetchCalls[q] = fw[q].attempt
  /\ promise[q].kind = "response" =>
       /\ rd[q].response = fw[q].lastResponse
       /\ JSONParse(rd[q].bodyText).ok
       /\ promise[q] = Finish(args[q], rd[q].response, JSONParse(rd[q].bodyText).data)

\* C27: a caller that awaited a registry entry goes past its await only when
\* the upstream call sequence of that entry is complete, and the shared
\* result it then returns is the response that sequence produced.
C27_SharedAfterCompletion ==
  \A w \in Calls :
    /\ PastAwait(w) => SequenceComplete(awaiting[w])
    /\ SharedResult(w) =>
         /\ pc[w] = "done"
         /\ ret[w] = promise[awaiting[w]]
         /\ ret[w].kind = "response"
         /\ fetchCalls[w] = 0

\* a waiter returned the response of a call that needed a retry before its
\* body was read and validated
C27_Witness ==
  \E w \in Calls :
    /\ SharedResult(w)
    /\ fetchCalls[awaiting[w]] = 2
    /\ ret[w].kind = "response"
    /\ ret[w].status = 200
    /\ rd[awaiting[w]].bodyText = T_ok

\* the step is a proxyRequest call made for context c
CallsFor(c) == \E p \in Calls : pc[p] = "idle" /\ pc'[p] # "idle" /\ ctxOf'[p] = c

\* the step starts the upstream call sequence of the call of p
StartsSequence(p) == promise[p] # Pending /\ promise'[p] = Pending

\* C28: the subrequest counter of every inbound request starts at 0, stays in
\* 0..MAX_SUBREQUESTS and never decreases; it changes only in a proxyRequest
\* call made for its own request, by exactly one; and every upstream call
\* sequence is started by a call that has incremented the counter of its
\* request once: in the step of the call itself, or, for a caller that first
\* awaited a registry entry, in the step in which it called.
C28_CounterPerRequest ==
  /\ \A c \in Ctx : subrequestCount[c] = 0
  /\ [][/\ \A c \in Ctx :
            /\ subrequestCount'[c] \in 0..MAX_SUBREQUESTS
            /\ subrequestCount'[c] >= subrequestCount[c]
            /\ subrequestCount'[c] # subrequestCount[c] =>
                 (subrequestCount'[c] = subrequestCount[c] + 1 /\ CallsFor(c))
       /\ \A p \in Calls :
            /\ (pc[p] = "idle" /\ pc'[p] \in {"fetch", "text", "await"}) =>
                 subrequestCount'[ctxOf'[p]] = subrequestCount[ctxOf'[p]] + 1
            /\ StartsSequence(p) =>
                 /\ promise[p] = NoRet
                 /\ pc[p] \in {"idle", "await"}
                 /\ pc[p] = "await" => UNCHANGED subrequestCount]_vars

\* the first request has used up its budget and makes a call that starts an
\* upstream call sequence for the second, whose counter alone moves
C28_Witness ==
  /\ subrequestCount[1] = MAX_SUBREQUESTS
  /\ subrequestCount[2] = 1
  /\ ctxOf[2] = 2
  /\ pc[2] = "fetch"
  /\ ret[1] = BudgetError

\* C29 (as stated): the fetch calls issued for one inbound request through
\* proxyRequest, retries included, never number more than MAX_SUBREQUESTS.
C29_Original == \A c \in Ctx : fetchTotal[c] <= MAX_SUBREQUESTS

IsPredicate == calc.f = "shouldRetry"

\* C30: the default retry predicate answers true exactly for 429 and for the
\* 5xx statuses other than 501 and 505; it answers false for every 2xx, for
\* 400, 401, 403, 404, 405, 409, 422, 501 and 505, and for every other
\* status; and the predicate of the proxy gives the same answer.
C30_RetryPredicates ==
  IsPredicate =>
    /\ calc.default = (\/ calc.status = 429
                       \/ (calc.status \in 500..599 /\ calc.status \notin {501, 505}))
    /\ calc.status \in 200..299 => ~calc.default
    /\ calc.status \in {400, 401, 403, 404, 405, 409, 422, 501, 505} => ~calc.default
    /\ calc.proxy = calc.default

\* a 505, a server error by its class, is not retried by either predicate
C30_Witness ==
  /\ IsPredicate
  /\ calc.status = 505
  /\ ~calc.default
  /\ ~calc.proxy

IsReader(p) == entry[p] = "processResponse"

\* the body texts of the upstream that are not JSON
NotJson == {"", T_html}

InvalidJson == HTTPException(502, "Invalid JSON response from upstream API")

\* processResponse read the body of its response to the end
FullyRead(p) ==
  /\ IsReader(p)
  /\ pc[p] = "done"
  /\ rd[p].response # NoResponse
  /\ ~rd[p].cancelled

\* C31: the bounded reader fails with the 502 for invalid JSON exactly when
\* the body it read to the end is not JSON, whatever the status of the
\* response; given a response without a body it returns data null, an empty
\* text and size 0, and no error.
C31_InvalidJsonAndNoBody ==
  \A p \in Calls :
    /\ FullyRead(p) => (ret[p] = InvalidJson <=> rd[p].bodyText \in NotJson)
    /\ (FullyRead(p) /\ rd[p].bodyText \notin NotJson) => ret[p].kind = "processed"
    /\ (IsReader(p) /\ rd[p].response = NoResponse) =>
         /\ pc[p] = "done"
         /\ ret[p] = [kind |-> "processed", data |-> JNull, bodyText |-> "", totalSize |-> 0]

\* a 500 whose body, read in two chunks, is an HTML page
C31_Witness ==
  /\ FullyRead(1)
  /\ rd[1].response.status = 500
  /\ Len(rd[1].chunks) = 2
  /\ rd[1].bodyText = T_html
  /\ ret[1] = InvalidJson

\* the backoff sleeps of p that have ended
SleepsEnded(p) == IF pc[p] = "sleep" THEN sleeps[p] - 1 ELSE sleeps[p]

\* the attempts of p that gave a response while attempts remained
AnsweredEarly(p) ==
  { i \in DOMAIN fetchLog[p] : fetchLog[p][i].kind = "response" /\ i < fw[p].maxRetries }

\* C32: in fetchWithRetry the attempts made are one more than the sleeps that
\* have ended; a sleep starts only after an answered attempt with attempts
\* remaining, and the next attempt only when it has ended; the retry predicate
\* is called at the answered attempts before the last permitted one and at no
\* other; and onRetry is called once before each sleep, with the number of
\* the attempt that just failed.
C32_SleepsBetweenAttempts ==
  \A p \in Calls :
    IsFetch(p) =>
      /\ fetchCalls[p] = SleepsEnded(p) + 1
      /\ fetchCalls[p] = fw[p].attempt
      /\ pc[p] = "sleep" =>
           (fw[p].attempt < fw[p].maxRetries /\ Len(fetchLog[p]) = fetchCalls[p])
      /\ pc[p] = "fetch" => Len(fetchLog[p]) = fetchCalls[p] - 1
      /\ pc[p] = "done" => sleeps[p] = fetchCalls[p] - 1
      /\ sleeps[p] <= fw[p].maxRetries - 1
      /\ Range(fw[p].consulted) = AnsweredEarly(p)
      /\ Len(fw[p].consulted) = Cardinality(AnsweredEarly(p))
      /\ fw[p].onRetry = [i \in 1..sleeps[p] |-> i]

\* three permitted attempts: a network error, then two 500s; two sleeps,
\* onRetry(1) and onRetry(2), and the predicate asked about the second
\* attempt only
C32_Witness ==
  /\ IsFetch(1)
  /\ fw[1].maxRetries = 3
  /\ fw[1].shouldRetry = "default"
  /\ fetchLog[1] = <<Thrown, Resp(500, TRUE), Resp(500, TRUE)>>
  /\ pc[1] = "done"
  /\ sleeps[1] = 2
  /\ fw[1].onRetry = <<1, 2>>
  /\ fw[1].consulted = <<2>>

\* C33: every proxyRequest call issues at most MAX_RETRIES fetches of its own
\* and sleeps at most MAX_RETRIES - 1 times, a call that awaited a registry
\* entry included, and in the end every call that was made (there are
\* finitely many) has ended, with a response or an error.
C33_CallsTerminate ==
  /\ [](\A p \in Calls : fetchCalls[p] <= MAX_RETRIES /\ sleeps[p] <= MAX_RETRIES - 1)
  /\ <>[](\A p \in Calls :
            pc[p] # "idle" => (pc[p] = "done" /\ ret[p].kind \in {"response", "error"}))

\* a waiter whose awaited call failed has ended after all the attempts and
\* sleeps of its one fallback sequence
C33_Witness ==
  \E w \in Calls :
    /\ awaiting[w] # 0
    /\ promise[awaiting[w]].kind = "error"
    /\ pc[w] = "done"
    /\ fetchCalls[w] = MAX_RETRIES
    /\ sleeps[w] = MAX_RETRIES - 1
    /\ ret[w].kind = "response"

\* C34: once no call arrives any more (there are finitely many) the registry
\* becomes empty and stays empty: every entry is removed in the end, the
\* entry of a call that failed and of a call that never completes included.
C34_RegistryDrains == <>[](\A k \in Keys : inFlightRequests[k] = 0)

\* the entry of a call whose fetch is still pending has been removed, and no
\* timer is left
C34_Witness ==
  \E p \in Calls :
    /\ pc[p] = "fetch"
    /\ shouldDeduplicate(args[p].method)
    /\ timers = <<>>
    /\ \A k \in Keys : inFlightRequests[k] = 0

\* the step is a proxyRequest call of p for a GET or HEAD whose key has an
\* entry in the registry
CallFindsEntry(p) ==
  /\ pc[p] = "idle"
  /\ pc'[p] # "idle"
  /\ args'[p].method \in {"GET", "HEAD"}
  /\ inFlightRequests[RequestKey(args'[p])] # 0

\* C35: a call that finds an in-flight entry for its key is counted like any
\* other: under the budget it increments the counter of its request by one
\* and then awaits the entry, issuing no fetch; at the budget it is refused
\* without looking at the registry; and returning the shared result later
\* leaves the counter as it is.
C35_WaiterIsCounted ==
  [][\A p \in Calls :
       /\ CallFindsEntry(p) =>
            LET c == ctxOf'[p] IN
            IF subrequestCount[c] >= MAX_SUBREQUESTS
            THEN pc'[p] = "done" /\ ret'[p] = BudgetError /\ UNCHANGED subrequestCount
            ELSE /\ pc'[p] = "await"
                 /\ subrequestCount'[c] = subrequestCount[c] + 1
                 /\ fetchCalls'[p] = 0
       /\ (pc[p] = "await" /\ pc'[p] = "done") =>
            (fetchCalls'[p] = 0 /\ UNCHANGED <<subrequestCount, fetchTotal>>)]_vars

\* the only call of the second request was served from the entry of the
\* first: its counter is 1 and no fetch was issued for it
C35_Witness ==
  /\ ctxOf[2] = 2
  /\ awaiting[2] = 1
  /\ pc[2] = "done"
  /\ promise[2] = NoRet
  /\ ret[2].kind = "response"
  /\ subrequestCount[2] = 1
  /\ fetchTotal[2] = 0

HandledError == eh.handler = "errorHandler"

\* C36: the error handler answers an HTTPException with its status, a
\* ZodError with 400 and any other error with 500, and its Cache-Control is
\* no-store when that status is 500 or above and no-cache below.
C36_StatusAndCacheControl ==
  HandledError =>
    /\ eh.err.kind = "HTTPException" => eh.response.status = eh.err.status
    /\ eh.err.kind = "ZodError" => eh.response.status = 400
    /\ eh.err.kind = "Error" => eh.response.status = 500
    /\ eh.response.status >= 500 => eh.response.headers.cacheControl = "no-store"
    /\ eh.response.status < 500 => eh.response.headers.cacheControl = "no-cache"

\* the 500 of the proxy is answered with 500 and no-store
C36_Witness ==
  /\ HandledError
  /\ eh.err.kind = "HTTPException"
  /\ eh.err.status = 500
  /\ eh.response.status = 500
  /\ eh.response.headers.cacheControl = "no-store"


(***************************************************************************)
(* Authentication in the middleware chain.                                 *)
(***************************************************************************)
\* the Authorization header is 'Bearer ' followed by at least 32 characters
\* that are the characters of WORKER_API_KEY
ValidBearer(r) ==
  /\ r.authorization.present
  /\ StartsWith(r.authorization.value, Bearer)
  /\ Len(Substring(r.authorization.value, 7)) >= 32
  /\ Substring(r.authorization.value, 7) = WORKER_API_KEY

\* the request arrived and its path is not a public one
Protected(r) == r.pc # "idle" /\ r.path \notin PUBLIC_PATHS

\* the stage was reached by the request
Reached(r, stage) == stage \in Range(r.trail)

\* the request ended with an HTTPException of one of the statuses
EndedWith(r, statuses) ==
  r.pc = "done" /\ r.out.kind = "error" /\ r.out.status \in statuses

\* C37 as stated: on a path that is not public the route handler runs only
\* for a valid Bearer key, and every other request ends with 401.
C37_Original ==
  \A i \in ChainReqs :
    Protected(rq[i]) =>
      /\ Reached(rq[i], "handler") => ValidBearer(rq[i])
      /\ (rq[i].pc = "done" /\ ~ValidBearer(rq[i])) => EndedWith(rq[i], {401})

\* C37: on a path that is not public the route handler (and so any upstream
\* call) runs only for an Authorization header 'Bearer ' + WORKER_API_KEY of
\* at least 32 characters; every other request ends without the handler
\* having run: with 401 when it reaches authMiddleware, and with the 429 or
\* 500 of the rate limiter mounted on its path when that ends it first.
C37_OnlyKeyHolderReachesHandler ==
  \A i \in ChainReqs :
    Protected(rq[i]) =>
      /\ Reached(rq[i], "handler") => ValidBearer(rq[i])
      /\ (rq[i].pc = "done" /\ ~ValidBearer(rq[i])) =>
           /\ ~Reached(rq[i], "handler")
           /\ IF Reached(rq[i], "auth")
              THEN EndedWith(rq[i], {401})
              ELSE Reached(rq[i], "limiter") /\ EndedWith(rq[i], {429, 500})

\* one request with the key was handled, one with a token of the key's length
\* that is not the key ended with 401, on paths that are not public
C37_Witness ==
  \E i, j \in ChainReqs :
    /\ Protected(rq[i]) /\ ValidBearer(rq[i]) /\ rq[i].pc = "done"
    /\ Reached(rq[i], "handler")
    /\ Protected(rq[j]) /\ rq[j].authorization = Header(Bearer \o X16 \o Y16)
    /\ EndedWith(rq[j], {401})


(***************************************************************************)
(* The rate limiter before the authentication.                             *)
(***************************************************************************)
\* a request to /v1/* or /beta/*
Limited(r) ==
  r.pc # "idle" /\ (StartsWith(r.path, V1Mount) \/ StartsWith(r.path, BetaMount))

\* the limiter wrote the record of the request's key: a window was created or
\* the incremented count was stored
WindowWritten(r) == r.puts >= 1

\* the limiter ran before authMiddleware did
LimiterFirst(r) ==
  Reached(r, "auth") => Len(r.trail) >= 2 /\ r.trail[1] = "limiter" /\ r.trail[2] = "auth"

\* the order of the two middlewares, and a denied request stops at the limiter
LimiterBeforeAuth ==
  \A i \in ChainReqs :
    Limited(rq[i]) =>
      /\ LimiterFirst(rq[i])
      /\ EndedWith(rq[i], {429}) => ~Reached(rq[i], "auth")

\* C38 as stated: a request to /v1/* or /beta/* rejected with 401 has been
\* counted in the window of its key, and a request denied by the limiter
\* never reaches the authentication.
C38_Original ==
  \A i \in ChainReqs :
    Limited(rq[i]) =>
      /\ EndedWith(rq[i], {401}) => WindowWritten(rq[i])
      /\ EndedWith(rq[i], {429}) => ~Reached(rq[i], "auth")

\* a 401 in production, the namespace bound and no store operation failing,
\* for a request the limiter let through without writing its record
C38_Uncounted ==
  \E i \in ChainReqs :
    /\ Limited(rq[i]) /\ EndedWith(rq[i], {401}) /\ ~WindowWritten(rq[i])
    /\ cfg.kv /\ cfg.NODE_ENV = "production"
    /\ rq[i].data.present /\ rq[i].ttl = 0


(***************************************************************************)
(* The records of the namespace by key.                                    *)
(***************************************************************************)
\* the record the namespace holds under the key
RecordUnder(key) == IF key \in DOMAIN store THEN store[key] ELSE NoRecord

\* the (prefix, client identifier, path) a rate-limit check is made for
CheckedFor(r) == <<r.keyPrefix, getClientIdentifier(r.from), r.path>>

\* every (prefix, client identifier, path) a request can be checked for
Triples ==
  { <<LimiterFor(path), getClientIdentifier(from), path>> :
      from \in KeyClients, path \in KeyPaths }

\* the request's kv.put completes in this step
Puts(i) == rq[i].pc = "put" /\ rq'[i].pc # "put" /\ rq'[i].puts = rq[i].puts + 1

\* a step changes only the record under the key string of the request whose
\* put completes in it
KeyFrame ==
  [][\A key \in DOMAIN store \cup DOMAIN store' :
       RecordUnder(key)' # RecordUnder(key) =>
         \E i \in ChainReqs : Puts(i) /\ rq[i].key = key]_vars

\* C39 as stated: a rate-limit check changes only the record of the prefix,
\* client and path of the request checked; the record of every other client,
\* path or prefix is left unchanged.
C39_Original ==
  [][\A t \in Triples :
       RecordUnder(RateLimitKey(t[1], t[2], t[3]))'
           # RecordUnder(RateLimitKey(t[1], t[2], t[3])) =>
         \E i \in ChainReqs : Puts(i) /\ CheckedFor(rq[i]) = t]_vars

\* a request denied with 429 by the window that a request of another client
\* for another path opened
C39_SharedWindow ==
  \E i, j \in ChainReqs :
    /\ rq[i].puts = 1 /\ EndedWith(rq[j], {429})
    /\ CheckedFor(rq[i])[2] # CheckedFor(rq[j])[2]
    /\ CheckedFor(rq[i])[3] # CheckedFor(rq[j])[3]

====
